---- MODULE Spec2Model ----
(***************************************************************************)
(* State-machine model of the streaming sketches of the repository:        *)
(*   CountMinSketch (count_min_sketch.py), DGIM (dgim.py),                 *)
(*   RunningMoments (online_moments.py), MinWiseSampler                    *)
(*   (minwise_sampler.py), the Bloom filter module                         *)
(*   (bloom_filter_module.py), OnlineMarkovModel (markov_module.py) and    *)
(*   AMSF2 (ams_f2.py).                                                    *)
(* Each instance is one record variable holding the object's fields; the   *)
(* other variables are the hash functions the instance draws on, the       *)
(* outcome of the last call (value returned or exception raised) and       *)
(* history variables that remember what the caller did.                    *)
(***************************************************************************)
EXTENDS Integers, Sequences, FiniteSets, TLC

VARIABLES
    ops,        \* number of calls made so far (bounds the run)
    cms,        \* CountMinSketch instance: [width, depth, tables]
    mmh3,       \* mmh3.hash(key, seeds[i]) as a table: row i -> key -> hash
    cmsOut,     \* outcome of the last CountMinSketch call
    cmsTrue,    \* history: key -> sum of the counts added for it
    cmsNeg,     \* history: some add() was given a negative count
    dgim,       \* DGIM instance: [window, buckets], buckets newest first
    dgOut,      \* outcome of the last DGIM call
    dgOnes,     \* history: timestamp -> number of 1-bits inserted with it
    dgNow,      \* history: timestamp of the last add_bit call
    dgZero,     \* history: some add_bit call had bit = 0
    dgRep,      \* history: per bucket, the time of the newest 1-bit it represents
    dgWriter,   \* the thread in add_bit: its position, arguments and loop index
    dgReader,   \* the thread in query: its position, iterator and locals
    dgShared,   \* the bucket objects and list objects the two threads share
    rm,         \* RunningMoments instance: [n, mean, M2, M3, M4]
    rmOut,      \* outcome of the last RunningMoments call
    rmFirst,    \* history: the first sample
    rmConst,    \* history: every sample so far equals the first
    rmUpdates,  \* history: the number of update calls made
    mws,        \* MinWiseSampler instance: [k, heap]
    sha256,     \* _hash_item as a table: item -> hash
    mwsOut,     \* outcome of the last MinWiseSampler call
    mwsSeen,    \* history: the items considered
    mwsDup,     \* history: some item was considered more than once
    bf,         \* the module's BloomFilter: the set of bit positions set
    bfHash,     \* the filter's hash functions: key -> slice -> bit position
    bfOut,      \* outcome of the last Bloom filter call
    bfMarked,   \* history: the keys given to mark_play_analyzed
    mm,         \* OnlineMarkovModel instance: [n, counts, smoothing, cached_P]
    mmOut,      \* outcome of the last OnlineMarkovModel call
    mmNeg,      \* history: some observe_transition had a negative weight
    mmTotal,    \* history: the total weight observed for i -> j
    mmWriter,   \* the thread in observe_transition: its position and arguments
    mmReaders,  \* the threads in transition_matrix: position, local P, value returned
    ams,        \* AMSF2 instance: [k, Z]
    amsSign,    \* _sign(x, sign_hashes[i]) as a table: i -> item -> +1 / -1
    amsOut,     \* outcome of the last AMSF2 call
    amsNet      \* history: the sum of the values given to update, per item

cmsVars == <<cms, mmh3, cmsOut, cmsTrue, cmsNeg>>
dgimVars == <<dgim, dgOut, dgOnes, dgNow, dgZero, dgRep>>

rmVars == <<rm, rmOut, rmFirst, rmConst, rmUpdates>>

mwsVars == <<mws, sha256, mwsOut, mwsSeen, mwsDup>>

bfVars == <<bf, bfHash, bfOut, bfMarked>>
mmVars == <<mm, mmOut, mmNeg, mmTotal>>
mmThreadVars == <<mmWriter, mmReaders>>
dgThreadVars == <<dgWriter, dgReader, dgShared>>
amsVars == <<ams, amsSign, amsOut, amsNet>>

vars == <<ops, cmsVars, dgimVars, rmVars, mwsVars, bfVars, mmVars, amsVars, mmThreadVars, dgThreadVars>>

\* What the calls on one instance leave alone: every other instance.
notCms == <<dgimVars, rmVars, mwsVars, bfVars, mmVars, amsVars, mmThreadVars, dgThreadVars>>
notDgim == <<cmsVars, rmVars, mwsVars, bfVars, mmVars, amsVars, mmThreadVars, dgThreadVars>>
notRm == <<cmsVars, dgimVars, mwsVars, bfVars, mmVars, amsVars, mmThreadVars, dgThreadVars>>
notMws == <<cmsVars, dgimVars, rmVars, bfVars, mmVars, amsVars, mmThreadVars, dgThreadVars>>
notBf == <<cmsVars, dgimVars, rmVars, mwsVars, mmVars, amsVars, mmThreadVars, dgThreadVars>>
notMm == <<cmsVars, dgimVars, rmVars, mwsVars, bfVars, amsVars, mmThreadVars, dgThreadVars>>
notDgimThreads == <<cmsVars, rmVars, mwsVars, bfVars, mmVars, amsVars, mmThreadVars>>
notAms == <<cmsVars, dgimVars, rmVars, mwsVars, bfVars, mmVars, mmThreadVars, dgThreadVars>>

(***************************************************************************)
(* Bounds of the model.                                                    *)
(***************************************************************************)
CmsMaxOps == 3     \* CountMinSketch calls per run
DgimMaxOps == 6    \* DGIM calls per run
MaxTime == 3       \* timestamps range over 0..MaxTime
MaxWindow == 2     \* largest DGIM window tried
ConcPrefixOps == 3 \* add_bit calls made before the concurrent pair of calls
RmMaxOps == 6      \* RunningMoments calls per run
MaxX == 5          \* samples range over 0..MaxX
MwsMaxOps == 5     \* MinWiseSampler calls per run
MaxItem == 3       \* items are 1..MaxItem
MaxK == 2          \* largest sampler size k tried
BfSlices == 2      \* hash functions (slices) of the Bloom filter
BfBits == 2        \* bits per slice of the Bloom filter
MmMaxOps == 3      \* OnlineMarkovModel calls per run
MaxStates == 2     \* largest number of Markov states tried
MaxWeight == 1     \* largest transition weight tried
AmsMaxOps == 4     \* AMSF2 calls per run
MaxAmsK == 2       \* largest AMSF2 k tried
MaxValue == 2      \* largest value given to AMSF2.update
IsoMaxOps == 6     \* updates per run when the six instances are updated together
NumReaders == 2    \* threads calling transition_matrix concurrently
MaxSteps == 2       \* largest steps argument of predict_distribution
MaxIter == 2        \* largest max_iter argument of stationary_distribution
MaxMixSteps == 2    \* largest max_steps argument of mixing_time_approx
CfgMaxOps == 2     \* calls per run when the three constructors are tried together
MaxWidth == 2      \* largest CountMinSketch width tried
MaxDepth == 2      \* largest CountMinSketch depth tried
MaxCount == 1      \* largest count given to add()

None == "None"
NoExc == "none"

\* What a call produced: the exception raised ("none" if it returned) and the
\* value returned.
Outcome(op, arg, exc, val) == [op |-> op, arg |-> arg, exc |-> exc, val |-> val]
NoCall == Outcome("none", None, NoExc, None)

(***************************************************************************)
(* Python arithmetic.                                                      *)
(***************************************************************************)
\* a % b of Python for b # 0: the result has the sign of b.
PyMod(a, b) == IF b > 0 THEN a % b ELSE -((-a) % (-b))

\* Python's list indexing lst[idx] on a list of length len is valid for
\* -len <= idx < len; PyIndex gives the 1-based position, 0 for IndexError.
PyIndex(len, idx) ==
    IF idx >= 0 /\ idx < len THEN idx + 1
    ELSE IF idx < 0 /\ -idx <= len THEN len + idx + 1
    ELSE 0

RECURSIVE SeqMin(_)
SeqMin(s) ==
    IF Len(s) = 1 THEN s[1]
    ELSE LET m == SeqMin(Tail(s)) IN IF s[1] <= m THEN s[1] ELSE m

\* [x] * n of Python: the empty list for n <= 0.
Repeat(x, n) == [i \in 1..(IF n > 0 THEN n ELSE 0) |-> x]

(***************************************************************************)
(* CountMinSketch.                                                         *)
(***************************************************************************)
Keys == {"player:123", "player:111"}
\* mmh3.hash returns a signed 32-bit integer; these values reach every column
\* of every width tried, from both signs.
HashVals == {-1, 0, 1}

\* __init__: no validation of width or depth; tables is depth rows of
\* width zeros.
CountMinSketch(width, depth) ==
    [width |-> width, depth |-> depth, tables |-> Repeat(Repeat(0, width), depth)]

\* Number of seeds = number of rows the generator _hashes walks.
NumRows(c) == Len(c.tables)

\* _hashes, row i: mmh3.hash(key, seeds[i]) % width; ZeroDivisionError for
\* width = 0.
HashRaises(c) == c.width = 0
HashIdx(c, h, i, key) == PyMod(h[i][key], c.width)

\* Mutant of AddRows: only the first row's cell is incremented.
AddRowsFirstOnly(c, h, key, count, i) ==
    IF NumRows(c) = 0 THEN [exc |-> NoExc, obj |-> c]
    ELSE IF HashRaises(c) THEN [exc |-> "ZeroDivisionError", obj |-> c]
    ELSE LET p == PyIndex(Len(c.tables[1]), HashIdx(c, h, 1, key)) IN
         IF p = 0 THEN [exc |-> "IndexError", obj |-> c]
         ELSE [exc |-> NoExc, obj |-> [c EXCEPT !.tables[1][p] = @ + count]]

\* add: rows are updated in order until one raises.
RECURSIVE AddRows(_, _, _, _, _)
AddRows(c, h, key, count, i) ==
    IF i > NumRows(c) THEN [exc |-> NoExc, obj |-> c]
    ELSE IF HashRaises(c) THEN [exc |-> "ZeroDivisionError", obj |-> c]
    ELSE LET p == PyIndex(Len(c.tables[i]), HashIdx(c, h, i, key)) IN
         IF p = 0 THEN [exc |-> "IndexError", obj |-> c]
         ELSE AddRows([c EXCEPT !.tables[i][p] = @ + count], h, key, count, i + 1)

add(c, h, key, count) == AddRows(c, h, key, count, 1)

\* estimate: min over the rows of the key's cell; min() of no rows raises
\* ValueError.
RECURSIVE EstCells(_, _, _, _)
EstCells(c, h, key, i) ==
    IF i > NumRows(c) THEN [exc |-> NoExc, cells |-> <<>>]
    ELSE IF HashRaises(c) THEN [exc |-> "ZeroDivisionError", cells |-> <<>>]
    ELSE LET p == PyIndex(Len(c.tables[i]), HashIdx(c, h, i, key)) IN
         IF p = 0 THEN [exc |-> "IndexError", cells |-> <<>>]
         ELSE LET r == EstCells(c, h, key, i + 1) IN
              [exc |-> r.exc,
               cells |-> IF r.exc = NoExc THEN <<c.tables[i][p]>> \o r.cells ELSE <<>>]

estimate(c, h, key) ==
    LET r == EstCells(c, h, key, 1) IN
    IF r.exc # NoExc THEN Outcome("estimate", key, r.exc, None)
    ELSE IF Len(r.cells) = 0 THEN Outcome("estimate", key, "ValueError", None)
    ELSE Outcome("estimate", key, NoExc, SeqMin(r.cells))

\* A valid default instance, for runs that exercise other components.
CmsIdle ==
    /\ cms = CountMinSketch(1, 1)
    /\ mmh3 = [i \in 1..1 |-> [k \in Keys |-> 0]]
    /\ cmsOut = NoCall
    /\ cmsTrue = [k \in Keys |-> 0]
    /\ cmsNeg = FALSE

CmsInit ==
    /\ \E w \in -1..MaxWidth, d \in -1..MaxDepth :
          /\ cms = CountMinSketch(w, d)
          /\ mmh3 \in [1..NumRows(cms) -> [Keys -> HashVals]]
    /\ cmsOut = NoCall
    /\ cmsTrue = [k \in Keys |-> 0]
    /\ cmsNeg = FALSE

CmsAdd ==
    /\ ops < CmsMaxOps
    /\ \E key \in Keys, count \in -1..MaxCount :
          LET r == add(cms, mmh3, key, count) IN
          /\ cms' = r.obj
          /\ cmsOut' = Outcome("add", key, r.exc, None)
          /\ cmsTrue' = IF r.exc = NoExc THEN [cmsTrue EXCEPT ![key] = @ + count]
                                         ELSE cmsTrue
          /\ cmsNeg' = (cmsNeg \/ count < 0)
    /\ ops' = ops + 1
    /\ UNCHANGED <<mmh3, notCms>>

CmsEstimate ==
    /\ ops < CmsMaxOps
    /\ \E key \in Keys :
          cmsOut' = estimate(cms, mmh3, key)
    /\ ops' = ops + 1
    /\ UNCHANGED <<cms, mmh3, cmsTrue, cmsNeg, notCms>>

CmsNext == CmsAdd \/ CmsEstimate

(***************************************************************************)
(* DGIM.                                                                   *)
(***************************************************************************)
\* __init__
DGIM(window_size) == [window |-> window_size, buckets |-> <<>>]

Bucket(time, size) == [time |-> time, size |-> size]

RemoveAt(s, j) == [x \in 1..(Len(s) - 1) |-> IF x < j THEN s[x] ELSE s[x + 1]]

\* Mutant of MergeFrom: the popped bucket's size is not added to its
\* neighbour.
RECURSIVE MergeDropSize(_, _)
MergeDropSize(bs, j) ==
    IF j + 2 > Len(bs) THEN bs
    ELSE IF bs[j].size = bs[j + 1].size /\ bs[j + 1].size = bs[j + 2].size
         THEN MergeDropSize(RemoveAt(bs, j), j)
         ELSE MergeDropSize(bs, j + 1)

\* The while loop of add_bit, from (1-based) position j = i + 1: when
\* buckets i, i+1, i+2 share a size, bucket i is added into bucket i+1 and
\* popped, and the scan stays at i; otherwise i advances.
RECURSIVE MergeFrom(_, _)
MergeFrom(bs, j) ==
    IF j + 2 > Len(bs) THEN bs
    ELSE IF bs[j].size = bs[j + 1].size /\ bs[j + 1].size = bs[j + 2].size
         THEN MergeFrom(RemoveAt([bs EXCEPT ![j + 1].size = @ + bs[j].size], j), j)
         ELSE MergeFrom(bs, j + 1)

\* The expiry of add_bit: keep the buckets with time >= cutoff.
Expire(bs, cutoff) == SelectSeq(bs, LAMBDA b : b.time >= cutoff)

add_bit(d, bit, ts) ==
    LET merged == IF bit # 0
                  THEN MergeFrom(<<Bucket(ts, 1)>> \o d.buckets, 1)
                  ELSE d.buckets
    IN [d EXCEPT !.buckets = Expire(merged, ts - d.window)]

\* The for loop of query from position j, with the running total and
\* whether last_bucket is still None.
RECURSIVE QueryFrom(_, _, _, _, _)
QueryFrom(bs, cutoff, j, total, lastIsNone) ==
    IF j > Len(bs) THEN total
    ELSE IF bs[j].time < cutoff
         THEN (IF lastIsNone THEN total + (bs[j].size \div 2) ELSE total)
         ELSE QueryFrom(bs, cutoff, j + 1, total + bs[j].size, FALSE)

query(d, ts) == QueryFrom(d.buckets, ts - d.window, 1, 0, TRUE)

Times == 0..MaxTime

\* History: the number of 1-bits inserted with a timestamp >= t.
OnesSince(t) ==
    LET RECURSIVE Sum(_)
        Sum(u) == IF u > MaxTime THEN 0
                  ELSE (IF u >= t THEN dgOnes[u] ELSE 0) + Sum(u + 1)
    IN Sum(0)

\* History kept beside the bucket list: rep[j] is the time of the newest
\* 1-bit among those bucket j stands for.  It follows add_bit step by step:
\* a new bucket stands for the bit just inserted, a merged bucket for the
\* bits of both buckets, and an evicted bucket's entry goes with it.
Max(a, b) == IF a >= b THEN a ELSE b

RECURSIVE RepMerge(_, _, _)
RepMerge(bs, rp, j) ==
    IF j + 2 > Len(bs) THEN rp
    ELSE IF bs[j].size = bs[j + 1].size /\ bs[j + 1].size = bs[j + 2].size
         THEN RepMerge(RemoveAt([bs EXCEPT ![j + 1].size = @ + bs[j].size], j),
                       RemoveAt([rp EXCEPT ![j + 1] = Max(rp[j], rp[j + 1])], j), j)
         ELSE RepMerge(bs, rp, j + 1)

RECURSIVE RepExpire(_, _, _)
RepExpire(bs, rp, cutoff) ==
    IF Len(bs) = 0 THEN <<>>
    ELSE (IF bs[1].time >= cutoff THEN <<rp[1]>> ELSE <<>>)
         \o RepExpire(Tail(bs), Tail(rp), cutoff)

Represented(d, rp, bit, ts) ==
    LET merged == IF bit # 0
                  THEN MergeFrom(<<Bucket(ts, 1)>> \o d.buckets, 1)
                  ELSE d.buckets
        rmerged == IF bit # 0
                   THEN RepMerge(<<Bucket(ts, 1)>> \o d.buckets, <<ts>> \o rp, 1)
                   ELSE rp
    IN RepExpire(merged, rmerged, ts - d.window)

\* No add_bit or query call is in progress.
DgNoThreads ==
    /\ dgWriter = [pc |-> "idle", bit |-> 0, ts |-> 0, i |-> 0, before |-> DGIM(0)]
    /\ dgReader = [pc |-> "idle", ts |-> 0, bound |-> "live", idx |-> 0, b |-> 0,
                   total |-> 0, lastNone |-> TRUE, ret |-> -1]
    /\ dgShared = [heap |-> <<>>, live |-> <<>>, old |-> <<>>]

DgimIdle ==
    /\ dgim = DGIM(1)
    /\ dgOut = NoCall
    /\ dgOnes = [t \in Times |-> 0]
    /\ dgNow = 0
    /\ dgZero = FALSE
    /\ dgRep = <<>>
    /\ DgNoThreads

DgimInit ==
    /\ \E w \in 0..MaxWindow : dgim = DGIM(w)
    /\ dgOut = NoCall
    /\ dgOnes = [t \in Times |-> 0]
    /\ dgNow = 0
    /\ dgZero = FALSE
    /\ dgRep = <<>>
    /\ DgNoThreads

\* add_bit is called with the clock's time, which never goes back.
DgimAddBit ==
    /\ ops < DgimMaxOps
    /\ \E bit \in {0, 1}, ts \in dgNow..MaxTime :
          /\ dgim' = add_bit(dgim, bit, ts)
          /\ dgOut' = Outcome("add_bit", ts, NoExc, None)
          /\ dgOnes' = IF bit # 0 THEN [dgOnes EXCEPT ![ts] = @ + 1] ELSE dgOnes
          /\ dgNow' = ts
          /\ dgZero' = (dgZero \/ bit = 0)
          /\ dgRep' = Represented(dgim, dgRep, bit, ts)
    /\ ops' = ops + 1
    /\ UNCHANGED notDgim

DgimQuery ==
    /\ ops < DgimMaxOps
    /\ \E ts \in Times : dgOut' = Outcome("query", ts, NoExc, query(dgim, ts))
    /\ ops' = ops + 1
    /\ UNCHANGED <<dgim, dgOnes, dgNow, dgZero, dgRep, notDgim>>

DgimNext == DgimAddBit \/ DgimQuery

(***************************************************************************)
(* One add_bit call running against one concurrent query call, one step    *)
(* per read or write of a shared object.  The shared objects are the       *)
(* bucket dictionaries (dgShared.heap, indexed by identity), the list       *)
(* self.buckets that add_bit changes in place (dgShared.live, a sequence    *)
(* of identities) and, once add_bit has bound self.buckets to its new       *)
(* list, the list object it replaced (dgShared.old), which a query that     *)
(* began its for loop earlier keeps iterating.  dgim stays the instance     *)
(* as the last completed add_bit left it.  The reads of the writer are      *)
(* taken together with its next write: nothing it reads is written by the   *)
(* query.                                                                  *)
(***************************************************************************)
\* The bucket objects of a list of identities.
Objects(heap, ids) == [j \in 1..Len(ids) |-> heap[ids[j]]]

\* The scan of the while loop from (1-based) position j up to the next
\* three buckets of one size: their position, or 0 when the loop ends.
RECURSIVE FindTriple(_, _)
FindTriple(bs, j) ==
    IF j + 2 > Len(bs) THEN 0
    ELSE IF bs[j].size = bs[j + 1].size /\ bs[j + 1].size = bs[j + 2].size
         THEN j
         ELSE FindTriple(bs, j + 1)

\* Both calls are entered on an instance that earlier calls have filled.
DgStart ==
    /\ dgWriter.pc = "idle"
    /\ \E bit \in {0, 1}, ts \in dgNow..MaxTime :
          dgWriter' = [pc |-> IF bit # 0 THEN "insert" ELSE "rebind",
                       bit |-> bit, ts |-> ts, i |-> 0, before |-> dgim]
    /\ \E ts \in dgNow..MaxTime : dgReader' = [dgReader EXCEPT !.pc = "start", !.ts = ts]
    /\ dgShared' = [heap |-> dgim.buckets,
                    live |-> [j \in 1..Len(dgim.buckets) |-> j],
                    old |-> <<>>]
    /\ UNCHANGED <<ops, dgimVars, notDgimThreads>>

\* add_bit line 19: self.buckets.insert(0, {'time': ts, 'size': 1}); i = 0
DgWriterInsert ==
    /\ dgWriter.pc = "insert"
    /\ dgShared' = [dgShared EXCEPT !.heap = Append(@, Bucket(dgWriter.ts, 1)),
                                    !.live = <<Len(dgShared.heap) + 1>> \o @]
    /\ dgWriter' = [dgWriter EXCEPT !.pc = "merge", !.i = 0]
    /\ UNCHANGED <<ops, dgimVars, dgReader, notDgimThreads>>

\* lines 22-25 and 27-28: i advances to the next three buckets of one size
\* and self.buckets[i+1]['size'] += self.buckets[i]['size'] is executed, or
\* the loop ends.
DgWriterMerge ==
    /\ dgWriter.pc = "merge"
    /\ LET j == FindTriple(Objects(dgShared.heap, dgShared.live), dgWriter.i + 1) IN
          IF j = 0
          THEN /\ dgWriter' = [dgWriter EXCEPT !.pc = "rebind"]
               /\ UNCHANGED dgShared
          ELSE /\ dgShared' = [dgShared EXCEPT !.heap[dgShared.live[j + 1]].size =
                                                   @ + dgShared.heap[dgShared.live[j]].size]
               /\ dgWriter' = [dgWriter EXCEPT !.pc = "pop", !.i = j - 1]
    /\ UNCHANGED <<ops, dgimVars, dgReader, notDgimThreads>>

\* line 26: self.buckets.pop(i)
DgWriterPop ==
    /\ dgWriter.pc = "pop"
    /\ dgShared' = [dgShared EXCEPT !.live = RemoveAt(@, dgWriter.i + 1)]
    /\ dgWriter' = [dgWriter EXCEPT !.pc = "merge"]
    /\ UNCHANGED <<ops, dgimVars, dgReader, notDgimThreads>>

\* lines 30-32: self.buckets is bound to a new list of the buckets with
\* time >= cutoff, and add_bit returns.  A for loop of query that is under
\* way stays on the list object that was replaced.
DgWriterRebind ==
    /\ dgWriter.pc = "rebind"
    /\ LET kept == SelectSeq(dgShared.live,
                             LAMBDA id : dgShared.heap[id].time >= dgWriter.ts - dgim.window)
      IN /\ dgShared' = [dgShared EXCEPT !.live = kept, !.old = dgShared.live]
         /\ dgim' = [dgim EXCEPT !.buckets = Expire(Objects(dgShared.heap, dgShared.live),
                                                   dgWriter.ts - dgim.window)]
    /\ dgReader' = [dgReader EXCEPT !.bound =
                        IF dgReader.pc = "start" THEN "live" ELSE "old"]
    /\ dgWriter' = [dgWriter EXCEPT !.pc = "done"]
    /\ dgOut' = Outcome("add_bit", dgWriter.ts, NoExc, None)
    /\ dgOnes' = IF dgWriter.bit # 0 THEN [dgOnes EXCEPT ![dgWriter.ts] = @ + 1] ELSE dgOnes
    /\ dgNow' = dgWriter.ts
    /\ dgZero' = (dgZero \/ dgWriter.bit = 0)
    /\ dgRep' = Represented(dgim, dgRep, dgWriter.bit, dgWriter.ts)
    /\ UNCHANGED <<ops, notDgimThreads>>

\* The list object the for loop of query iterates.
ReaderList == IF dgReader.bound = "live" THEN dgShared.live ELSE dgShared.old

\* query lines 37-40: cutoff, total = 0, last_bucket = None, and the for
\* loop takes an iterator of the list self.buckets is bound to.
DgReaderStart ==
    /\ dgReader.pc = "start"
    /\ dgReader' = [dgReader EXCEPT !.pc = "next", !.bound = "live", !.idx = 0,
                                    !.total = 0, !.lastNone = TRUE]
    /\ UNCHANGED <<ops, dgimVars, dgWriter, dgShared, notDgimThreads>>

\* lines 40-46: the iterator yields the element at its index, if the list
\* is that long, and b['time'] (never written after the bucket is made) is
\* compared with cutoff; the loop ends at the end of the list and at an old
\* bucket that is not the first one.
DgReaderNext ==
    /\ dgReader.pc = "next"
    /\ IF dgReader.idx >= Len(ReaderList)
       THEN dgReader' = [dgReader EXCEPT !.pc = "done", !.ret = dgReader.total]
       ELSE LET b == ReaderList[dgReader.idx + 1] IN
            IF dgShared.heap[b].time < dgReader.ts - dgim.window
            THEN IF dgReader.lastNone
                 THEN dgReader' = [dgReader EXCEPT !.pc = "half", !.b = b,
                                                  !.idx = @ + 1]
                 ELSE dgReader' = [dgReader EXCEPT !.pc = "done", !.ret = dgReader.total]
            ELSE dgReader' = [dgReader EXCEPT !.pc = "size", !.b = b, !.idx = @ + 1]
    /\ UNCHANGED <<ops, dgimVars, dgWriter, dgShared, notDgimThreads>>

\* lines 47-48: total += b['size']; last_bucket = b
DgReaderSize ==
    /\ dgReader.pc = "size"
    /\ dgReader' = [dgReader EXCEPT !.pc = "next", !.lastNone = FALSE,
                                    !.total = @ + dgShared.heap[dgReader.b].size]
    /\ UNCHANGED <<ops, dgimVars, dgWriter, dgShared, notDgimThreads>>

\* lines 45-46 and 49: total += b['size'] // 2; break; return total
DgReaderHalf ==
    /\ dgReader.pc = "half"
    /\ LET total == dgReader.total + (dgShared.heap[dgReader.b].size \div 2)
       IN dgReader' = [dgReader EXCEPT !.pc = "done", !.total = total, !.ret = total]
    /\ UNCHANGED <<ops, dgimVars, dgWriter, dgShared, notDgimThreads>>

\* Sequential add_bit(1, ts) calls fill the instance; then one add_bit and
\* one query run against each other.
DgimConcNext ==
    \/ (ops < ConcPrefixOps /\ dgWriter.pc = "idle" /\ DgimAddBit /\ dgOnes' # dgOnes)
    \/ DgStart
    \/ DgWriterInsert
    \/ DgWriterMerge
    \/ DgWriterPop
    \/ DgWriterRebind
    \/ DgReaderStart
    \/ DgReaderNext
    \/ DgReaderSize
    \/ DgReaderHalf

(***************************************************************************)
(* Exact rational arithmetic, for the float fields of RunningMoments and   *)
(* OnlineMarkovModel: a rational is <<numerator, denominator>> in lowest   *)
(* terms with a positive denominator.                                      *)
(***************************************************************************)
Abs(a) == IF a < 0 THEN -a ELSE a

RECURSIVE GCD(_, _)
GCD(a, b) == IF b = 0 THEN a ELSE GCD(b, a % b)

Rat(num, den) ==
    LET g == GCD(Abs(num), Abs(den))
        s == IF den < 0 THEN -1 ELSE 1
    IN <<(s * num) \div g, (s * den) \div g>>

RInt(i) == <<i, 1>>
RZero == RInt(0)
RNeg(a) == <<-a[1], a[2]>>
RAdd(a, b) ==
    LET g == GCD(a[2], b[2]) IN
    Rat(a[1] * (b[2] \div g) + b[1] * (a[2] \div g), a[2] * (b[2] \div g))
RSub(a, b) == RAdd(a, RNeg(b))
RMul(a, b) ==
    LET g1 == GCD(Abs(a[1]), b[2])
        g2 == GCD(Abs(b[1]), a[2])
    IN <<(a[1] \div g1) * (b[1] \div g2), (a[2] \div g2) * (b[2] \div g1)>>
\* a / b for b # 0
RDiv(a, b) == RMul(a, IF b[1] < 0 THEN <<-b[2], -b[1]>> ELSE <<b[2], b[1]>>)
RSign(a) == IF a[1] > 0 THEN 1 ELSE IF a[1] < 0 THEN -1 ELSE 0
RAbs(a) == <<Abs(a[1]), a[2]>>
\* a < b, by integer parts and then the reciprocals of the fractional parts
\* (no cross product, which could leave the integer range).
RECURSIVE RLt(_, _)
RLt(a, b) ==
    LET qa == a[1] \div a[2]
        qb == b[1] \div b[2]
        ra == a[1] - qa * a[2]
        rb == b[1] - qb * b[2]
    IN IF qa # qb THEN qa < qb
       ELSE IF rb = 0 THEN FALSE
       ELSE IF ra = 0 THEN TRUE
       ELSE RLt(<<b[2], rb>>, <<a[2], ra>>)

(***************************************************************************)
(* RunningMoments.                                                         *)
(***************************************************************************)
\* __init__
RunningMoments == [n |-> 0, mean |-> RZero, M2 |-> RZero, M3 |-> RZero, M4 |-> RZero]

update(r, x) ==
    LET n1 == r.n
        n == r.n + 1
        delta == RSub(RInt(x), r.mean)
        delta_n == RDiv(delta, RInt(n))
        delta_n2 == RMul(delta_n, delta_n)
        term1 == RMul(RMul(delta, delta_n), RInt(n1))
    IN [n |-> n,
        mean |-> RAdd(r.mean, delta_n),
        M4 |-> RSub(RAdd(RAdd(r.M4, RMul(RMul(term1, delta_n2), RInt(n * n - 3 * n + 3))),
                         RMul(RMul(RInt(6), delta_n2), r.M2)),
                    RMul(RMul(RInt(4), delta_n), r.M3)),
        M3 |-> RSub(RAdd(r.M3, RMul(RMul(term1, delta_n), RInt(n - 2))),
                    RMul(RMul(RInt(3), delta_n), r.M2)),
        M2 |-> RAdd(r.M2, term1)]

get_mean(r) == Outcome("get_mean", None, NoExc, IF r.n # 0 THEN r.mean ELSE RZero)

get_variance(r) ==
    Outcome("get_variance", None, NoExc,
            IF r.n > 1 THEN RDiv(r.M2, RInt(r.n - 1)) ELSE RZero)

\* A value sign * sqrt(sq), for the square roots of get_skewness.
Root(sign, sq) == [sign |-> sign, sq |-> sq]

\* (sqrt(n) * M3) / (M2 ** 1.5): the float division raises ZeroDivisionError
\* when M2 ** 1.5 is 0.0; otherwise the value is sign(M3) * sqrt(n*M3^2/M2^3).
get_skewness(r) ==
    IF r.n < 3 THEN Outcome("get_skewness", None, NoExc, Root(0, RZero))
    ELSE IF r.M2 = RZero THEN Outcome("get_skewness", None, "ZeroDivisionError", None)
    ELSE Outcome("get_skewness", None, NoExc,
                 Root(RSign(r.M3),
                      RDiv(RMul(RInt(r.n), RMul(r.M3, r.M3)),
                           RMul(r.M2, RMul(r.M2, r.M2)))))

\* Mutant of get_kurtosis: the guard is n < 3 instead of n < 4.
get_kurtosisOffByOne(r) ==
    IF r.n < 3 THEN Outcome("get_kurtosis", None, NoExc, RZero)
    ELSE IF RMul(r.M2, r.M2) = RZero
         THEN Outcome("get_kurtosis", None, "ZeroDivisionError", None)
    ELSE Outcome("get_kurtosis", None, NoExc,
                 RSub(RDiv(RMul(RInt(r.n), r.M4), RMul(r.M2, r.M2)), RInt(3)))

\* (n * M4) / (M2 * M2) - 3.0: ZeroDivisionError when M2 * M2 is 0.0.
get_kurtosis(r) ==
    IF r.n < 4 THEN Outcome("get_kurtosis", None, NoExc, RZero)
    ELSE IF RMul(r.M2, r.M2) = RZero
         THEN Outcome("get_kurtosis", None, "ZeroDivisionError", None)
    ELSE Outcome("get_kurtosis", None, NoExc,
                 RSub(RDiv(RMul(RInt(r.n), r.M4), RMul(r.M2, r.M2)), RInt(3)))

Samples == 0..MaxX

RmIdle ==
    /\ rm = RunningMoments
    /\ rmOut = NoCall
    /\ rmFirst = None
    /\ rmConst = TRUE
    /\ rmUpdates = 0

RmInit == RmIdle

RmUpdate ==
    /\ ops < RmMaxOps
    /\ \E x \in Samples :
          /\ rm' = update(rm, x)
          /\ rmFirst' = IF rm.n = 0 THEN x ELSE rmFirst
          /\ rmConst' = (rmConst /\ (rm.n = 0 \/ x = rmFirst))
    /\ rmUpdates' = rmUpdates + 1
    /\ rmOut' = Outcome("update", None, NoExc, None)
    /\ ops' = ops + 1
    /\ UNCHANGED notRm

RmGet ==
    /\ ops < RmMaxOps
    /\ \/ rmOut' = get_mean(rm)
       \/ rmOut' = get_variance(rm)
       \/ rmOut' = get_skewness(rm)
       \/ rmOut' = get_kurtosis(rm)
    /\ ops' = ops + 1
    /\ UNCHANGED <<rm, rmFirst, rmConst, rmUpdates, notRm>>

RmNext == RmUpdate \/ RmGet

(***************************************************************************)
(* MinWiseSampler.  Items are strings in the code; here they are numbered, *)
(* the numbers ordered as the strings are.  A heap entry is the tuple      *)
(* <<-hash, item>>, compared as Python compares tuples.                    *)
(***************************************************************************)
Items == 1..MaxItem

TupLt(a, b) == a[1] < b[1] \/ (a[1] = b[1] /\ a[2] < b[2])

\* heapq._siftdown(heap, startpos, pos), positions 0-based as in heapq.
RECURSIVE SiftDownLoop(_, _, _, _)
SiftDownLoop(heap, startpos, pos, newitem) ==
    IF pos > startpos
    THEN LET parentpos == (pos - 1) \div 2
             parent == heap[parentpos + 1]
         IN IF TupLt(newitem, parent)
            THEN SiftDownLoop([heap EXCEPT ![pos + 1] = parent], startpos, parentpos, newitem)
            ELSE [heap EXCEPT ![pos + 1] = newitem]
    ELSE [heap EXCEPT ![pos + 1] = newitem]

siftdown(heap, startpos, pos) == SiftDownLoop(heap, startpos, pos, heap[pos + 1])

\* heapq._siftup(heap, pos): bubble the smaller child up to a leaf, then
\* sift the new item down from there.
RECURSIVE SiftUpLoop(_, _, _, _)
SiftUpLoop(heap, startpos, pos, newitem) ==
    LET endpos == Len(heap)
        childpos == 2 * pos + 1
    IN IF childpos < endpos
       THEN LET rightpos == childpos + 1
                c == IF rightpos < endpos /\ ~TupLt(heap[childpos + 1], heap[rightpos + 1])
                     THEN rightpos ELSE childpos
            IN SiftUpLoop([heap EXCEPT ![pos + 1] = heap[c + 1]], startpos, c, newitem)
       ELSE siftdown([heap EXCEPT ![pos + 1] = newitem], startpos, pos)

siftup(heap, pos) == SiftUpLoop(heap, pos, pos, heap[pos + 1])

\* heapq.heappush
heappush(heap, item) == siftdown(Append(heap, item), 0, Len(heap))

\* heapq.heapreplace on a non-empty heap
heapreplace(heap, item) == siftup([heap EXCEPT ![1] = item], 0)

\* __init__: k is not validated.
MinWiseSampler(k) == [k |-> k, heap |-> <<>>]

\* Mutant of consider: a full heap's root is replaced without comparing the
\* hashes.
considerNoCompare(m, h, item) ==
    LET hval == h[item] IN
    IF Len(m.heap) < m.k
    THEN [exc |-> NoExc, obj |-> [m EXCEPT !.heap = heappush(m.heap, <<-hval, item>>)]]
    ELSE IF Len(m.heap) = 0 THEN [exc |-> "IndexError", obj |-> m]
    ELSE [exc |-> NoExc, obj |-> [m EXCEPT !.heap = heapreplace(m.heap, <<-hval, item>>)]]

\* consider: self.heap[0] raises IndexError on an empty heap.
consider(m, h, item) ==
    LET hval == h[item] IN
    IF Len(m.heap) < m.k
    THEN [exc |-> NoExc, obj |-> [m EXCEPT !.heap = heappush(m.heap, <<-hval, item>>)]]
    ELSE IF Len(m.heap) = 0 THEN [exc |-> "IndexError", obj |-> m]
    ELSE IF hval < -m.heap[1][1]
         THEN [exc |-> NoExc, obj |-> [m EXCEPT !.heap = heapreplace(m.heap, <<-hval, item>>)]]
         ELSE [exc |-> NoExc, obj |-> m]

sample(m) == [j \in 1..Len(m.heap) |-> m.heap[j][2]]

\* _hash_item: SHA-256 of the item read as an integer, collision-free on the
\* items of a run: any injective table.
HashTables == {h \in [Items -> 0..MaxItem] : \A a, b \in Items : a # b => h[a] # h[b]}

MwsIdle ==
    /\ mws = MinWiseSampler(1)
    /\ sha256 = [it \in Items |-> it]
    /\ mwsOut = NoCall
    /\ mwsSeen = {}
    /\ mwsDup = FALSE

MwsInit ==
    /\ \E k \in -1..MaxK : mws = MinWiseSampler(k)
    /\ sha256 \in HashTables
    /\ mwsOut = NoCall
    /\ mwsSeen = {}
    /\ mwsDup = FALSE

MwsConsider ==
    /\ ops < MwsMaxOps
    /\ \E item \in Items :
          LET r == consider(mws, sha256, item) IN
          /\ mws' = r.obj
          /\ mwsOut' = Outcome("consider", item, r.exc, None)
          /\ mwsSeen' = mwsSeen \cup {item}
          /\ mwsDup' = (mwsDup \/ item \in mwsSeen)
    /\ ops' = ops + 1
    /\ UNCHANGED <<sha256, notMws>>

MwsSample ==
    /\ ops < MwsMaxOps
    /\ mwsOut' = Outcome("sample", None, NoExc, sample(mws))
    /\ ops' = ops + 1
    /\ UNCHANGED <<mws, sha256, mwsSeen, mwsDup, notMws>>

MwsNext == MwsConsider \/ MwsSample

(***************************************************************************)
(* The Bloom filter module.  The filter class comes from the pybloom_live  *)
(* library; it is modelled as the design describes it: each of a fixed     *)
(* set of hash functions maps the key to one bit position (of its own      *)
(* slice), add sets those bits and membership tests that all are set.      *)
(***************************************************************************)
PlayKeys == {"play:1", "play:2", "play:3"}
BfPositions(h, key) == {<<sl, h[key][sl]>> : sl \in 1..BfSlices}

BloomFilter == {}
BloomAdd(bits, h, key) == bits \cup BfPositions(h, key)
BloomContains(bits, h, key) == BfPositions(h, key) \subseteq bits

\* Mutant of mark_play_analyzed: the filter is rebuilt for each key.
mark_play_rebuild(bits, h, play_key) == BloomAdd(BloomFilter, h, play_key)

mark_play_analyzed(bits, h, play_key) == BloomAdd(bits, h, play_key)
check_play_analyzed(bits, h, play_key) == BloomContains(bits, h, play_key)

BfIdle ==
    /\ bf = BloomFilter
    /\ bfHash = [k \in PlayKeys |-> [sl \in 1..BfSlices |-> 0]]
    /\ bfOut = NoCall
    /\ bfMarked = {}

BfInit ==
    /\ bf = BloomFilter
    /\ bfHash \in [PlayKeys -> [1..BfSlices -> 0..(BfBits - 1)]]
    /\ bfOut = NoCall
    /\ bfMarked = {}

BfMark ==
    /\ \E key \in PlayKeys :
          /\ bf' = mark_play_analyzed(bf, bfHash, key)
          /\ bfOut' = Outcome("mark_play_analyzed", key, NoExc, None)
          /\ bfMarked' = bfMarked \cup {key}
    /\ UNCHANGED <<ops, bfHash, notBf>>

BfCheck ==
    /\ \E key \in PlayKeys :
          bfOut' = Outcome("check_play_analyzed", key, NoExc,
                           check_play_analyzed(bf, bfHash, key))
    /\ UNCHANGED <<ops, bf, bfHash, bfMarked, notBf>>

BfNext == BfMark \/ BfCheck

(***************************************************************************)
(* OnlineMarkovModel.  States are numbered 1..n in the order of the list   *)
(* given to __init__ (self.idx); any other label is not in self.idx.       *)
(* Float fields are exact rationals.                                       *)
(***************************************************************************)
RECURSIVE RSum(_)
RSum(s) == IF Len(s) = 0 THEN RZero ELSE RAdd(s[1], RSum(Tail(s)))

\* A numpy array holds its entries: the function f on 1..n written out as
\* the tuple <<f[1], ..., f[n]>>, and a matrix as the tuple of its rows.
RECURSIVE Entries(_, _)
Entries(f, n) == IF n = 0 THEN <<>> ELSE Append(Entries(f, n - 1), f[n])
Array(f) == Entries(f, Len(f))
Matrix(P) == Array([i \in 1..Len(P) |-> Array(P[i])])

\* self._cached_P is None (no matrix) or a matrix: a sequence of length 0 or 1.
NoMatrix == <<>>
Cached(P) == <<P>>

\* __init__
OnlineMarkovModel(n, smoothing) ==
    [n |-> n,
     counts |-> [i \in 1..n |-> [j \in 1..n |-> 0]],
     smoothing |-> smoothing,
     cached_P |-> NoMatrix]

KnownLabel(m, label) == label \in 1..m.n

\* Mutant of observe_transition: the cache is dropped before the labels
\* are looked up.
observe_transitionDropFirst(m, from_state, to_state, weight) ==
    IF ~KnownLabel(m, from_state) \/ ~KnownLabel(m, to_state)
    THEN [m EXCEPT !.cached_P = NoMatrix]
    ELSE [m EXCEPT !.counts[from_state][to_state] = @ + weight,
                   !.cached_P = NoMatrix]

\* Mutant of observe_transition: the cached matrix is kept.
observe_transitionKeepCache(m, from_state, to_state, weight) ==
    IF ~KnownLabel(m, from_state) \/ ~KnownLabel(m, to_state) THEN m
    ELSE [m EXCEPT !.counts[from_state][to_state] = @ + weight]

\* Mutant of observe_transition: an observed self-loop keeps the cache.
observe_transitionKeepOnSelfLoop(m, from_state, to_state, weight) ==
    IF ~KnownLabel(m, from_state) \/ ~KnownLabel(m, to_state) THEN m
    ELSE [m EXCEPT !.counts[from_state][to_state] = @ + weight,
                   !.cached_P = IF from_state = to_state THEN @ ELSE NoMatrix]

observe_transition(m, from_state, to_state, weight) ==
    IF ~KnownLabel(m, from_state) \/ ~KnownLabel(m, to_state) THEN m
    ELSE [m EXCEPT !.counts[from_state][to_state] = @ + weight,
                   !.cached_P = NoMatrix]

\* Mutant of Normalised: the smoothing constant is left out.
NormalisedNoSmoothing(m) ==
    LET C == Matrix([i \in 1..m.n |-> [j \in 1..m.n |-> RInt(m.counts[i][j])]])
        sums == Array([i \in 1..m.n |-> RSum(C[i])])
        row_sums == Array([i \in 1..m.n |-> IF sums[i] = RZero THEN RInt(1) ELSE sums[i]])
    IN [i \in 1..m.n |-> [j \in 1..m.n |-> RDiv(C[i][j], row_sums[i])]]

\* The body of transition_matrix after the cache test: C = counts +
\* smoothing, zero row sums replaced by 1, P = C / row_sums.
Normalised(m) ==
    LET C == Matrix([i \in 1..m.n |-> [j \in 1..m.n |-> RAdd(RInt(m.counts[i][j]), m.smoothing)]])
        sums == Array([i \in 1..m.n |-> RSum(C[i])])
        row_sums == Array([i \in 1..m.n |-> IF sums[i] = RZero THEN RInt(1) ELSE sums[i]])
    IN [i \in 1..m.n |-> [j \in 1..m.n |-> RDiv(C[i][j], row_sums[i])]]

\* transition_matrix: the matrix returned and the instance with its cache set.
transition_matrix(m) ==
    IF m.cached_P # NoMatrix THEN [P |-> m.cached_P[1], obj |-> m]
    ELSE LET P == Matrix(Normalised(m)) IN [P |-> P, obj |-> [m EXCEPT !.cached_P = Cached(P)]]

\* transition_prob_matrix_readable: the entries of transition_matrix()
\* copied into a table indexed by state and state; the table returned and
\* the instance with its cache set.
transition_prob_matrix_readable(m) ==
    LET r == transition_matrix(m)
    IN [val |-> Matrix([i \in 1..m.n |-> [j \in 1..m.n |-> r.P[i][j]]]), obj |-> r.obj]

Smoothings == {RZero, Rat(1, 1000), RInt(1)}

\* The threads that may be inside transition_matrix at once.
Readers == 1..NumReaders

\* No call is in progress.
NoThreads ==
    /\ mmWriter = [pc |-> "done", from_state |-> 0, to_state |-> 0, weight |-> 0]
    /\ mmReaders = [t \in Readers |-> [pc |-> "done", P |-> NoMatrix, ret |-> NoMatrix]]

MmIdle ==
    /\ mm = OnlineMarkovModel(1, Rat(1, 1000))
    /\ mmOut = NoCall
    /\ mmNeg = FALSE
    /\ mmTotal = mm.counts
    /\ NoThreads

MmInit ==
    /\ \E n \in 1..MaxStates, sm \in Smoothings : mm = OnlineMarkovModel(n, sm)
    /\ mmOut = NoCall
    /\ mmNeg = FALSE
    /\ mmTotal = mm.counts
    /\ NoThreads

\* Labels 1..n are the configured states; 0 is a label outside the set.
\* The outcome records whether both labels of the call were known.
MmObserveWith(weights) ==
    /\ ops < MmMaxOps
    /\ \E from_state \in 0..mm.n, to_state \in 0..mm.n, weight \in weights :
          LET known == KnownLabel(mm, from_state) /\ KnownLabel(mm, to_state) IN
          /\ mm' = observe_transition(mm, from_state, to_state, weight)
          /\ mmOut' = Outcome("observe_transition", known, NoExc, None)
          /\ mmNeg' = (mmNeg \/ (weight < 0 /\ known))
          /\ mmTotal' = IF known
                        THEN [mmTotal EXCEPT ![from_state][to_state] = @ + weight]
                        ELSE mmTotal
    /\ ops' = ops + 1
    /\ UNCHANGED notMm

\* observe_transition with any weight (it is not validated).
MmObserve == MmObserveWith(-1..MaxWeight)

\* observe_transition with weight left at its default 1.0, as every caller
\* of the repository does.
MmObserveDefault == MmObserveWith({1})

MmTransitionMatrix ==
    /\ ops < MmMaxOps
    /\ LET r == transition_matrix(mm) IN
          /\ mm' = r.obj
          /\ mmOut' = Outcome("transition_matrix", None, NoExc, r.P)
    /\ ops' = ops + 1
    /\ UNCHANGED <<mmNeg, mmTotal, notMm>>

MmReadable ==
    /\ ops < MmMaxOps
    /\ LET r == transition_prob_matrix_readable(mm) IN
          /\ mm' = r.obj
          /\ mmOut' = Outcome("transition_prob_matrix_readable", None, NoExc, r.val)
    /\ ops' = ops + 1
    /\ UNCHANGED <<mmNeg, mmTotal, notMm>>

MmNext == MmObserve \/ MmTransitionMatrix \/ MmReadable

(***************************************************************************)
(* One observe_transition call running against concurrent                  *)
(* transition_matrix calls, one step per read or write of a field of the   *)
(* instance.                                                               *)
(***************************************************************************)
MmConcInit ==
    /\ \E n \in 1..MaxStates, sm \in Smoothings : mm = OnlineMarkovModel(n, sm)
    /\ mmOut = NoCall
    /\ mmNeg = FALSE
    /\ mmTotal = mm.counts
    /\ \E from_state \in 0..mm.n, to_state \in 0..mm.n, weight \in -1..MaxWeight :
          mmWriter = [pc |-> "check", from_state |-> from_state,
                      to_state |-> to_state, weight |-> weight]
    /\ mmReaders = [t \in Readers |-> [pc |-> "test", P |-> NoMatrix, ret |-> NoMatrix]]

sequentialVars ==
    <<ops, mmOut, cmsVars, dgimVars, rmVars, mwsVars, bfVars, amsVars, dgThreadVars>>

\* observe_transition line 22: the labels are looked up in self.idx.
WriterCheck ==
    /\ mmWriter.pc = "check"
    /\ mmWriter' = [mmWriter EXCEPT !.pc =
                        IF KnownLabel(mm, mmWriter.from_state)
                           /\ KnownLabel(mm, mmWriter.to_state)
                        THEN "add" ELSE "done"]
    /\ UNCHANGED <<mm, mmNeg, mmTotal, mmReaders, sequentialVars>>

\* line 26: self.counts[i,j] += weight
WriterAdd ==
    /\ mmWriter.pc = "add"
    /\ mm' = [mm EXCEPT !.counts[mmWriter.from_state][mmWriter.to_state] =
                             @ + mmWriter.weight]
    /\ mmTotal' = [mmTotal EXCEPT ![mmWriter.from_state][mmWriter.to_state] =
                                      @ + mmWriter.weight]
    /\ mmNeg' = (mmNeg \/ mmWriter.weight < 0)
    /\ mmWriter' = [mmWriter EXCEPT !.pc = "invalidate"]
    /\ UNCHANGED <<mmReaders, sequentialVars>>

\* line 27: self._cached_P = None
WriterInvalidate ==
    /\ mmWriter.pc = "invalidate"
    /\ mm' = [mm EXCEPT !.cached_P = NoMatrix]
    /\ mmWriter' = [mmWriter EXCEPT !.pc = "done"]
    /\ UNCHANGED <<mmNeg, mmTotal, mmReaders, sequentialVars>>

\* transition_matrix line 31: if self._cached_P is not None
ReaderTest(t) ==
    /\ mmReaders[t].pc = "test"
    /\ mmReaders' = [mmReaders EXCEPT ![t].pc =
                         IF mm.cached_P # NoMatrix THEN "return_cached" ELSE "compute"]
    /\ UNCHANGED <<mm, mmNeg, mmTotal, mmWriter, sequentialVars>>

\* line 32: return self._cached_P (the field is read again)
ReaderReturnCached(t) ==
    /\ mmReaders[t].pc = "return_cached"
    /\ mmReaders' = [mmReaders EXCEPT ![t].pc = "done", ![t].ret = mm.cached_P]
    /\ UNCHANGED <<mm, mmNeg, mmTotal, mmWriter, sequentialVars>>

\* lines 33-37: self.counts is read and P computed in locals
ReaderCompute(t) ==
    /\ mmReaders[t].pc = "compute"
    /\ mmReaders' = [mmReaders EXCEPT ![t].pc = "store",
                                      ![t].P = Cached(Matrix(Normalised(mm)))]
    /\ UNCHANGED <<mm, mmNeg, mmTotal, mmWriter, sequentialVars>>

\* lines 38-39: self._cached_P = P; return P
ReaderStore(t) ==
    /\ mmReaders[t].pc = "store"
    /\ mm' = [mm EXCEPT !.cached_P = mmReaders[t].P]
    /\ mmReaders' = [mmReaders EXCEPT ![t].pc = "done", ![t].ret = mmReaders[t].P]
    /\ UNCHANGED <<mmNeg, mmTotal, mmWriter, sequentialVars>>

MmConcNext ==
    \/ WriterCheck
    \/ WriterAdd
    \/ WriterInvalidate
    \/ \E t \in Readers : ReaderTest(t)
    \/ \E t \in Readers : ReaderReturnCached(t)
    \/ \E t \in Readers : ReaderCompute(t)
    \/ \E t \in Readers : ReaderStore(t)

\* v.dot(P)
VecMat(v, P) ==
    Array([j \in 1..Len(v) |-> RSum(Array([i \in 1..Len(v) |-> RMul(v[i], P[i][j])]))])

\* for _ in range(steps): v = v.dot(P)
RECURSIVE PredictLoop(_, _, _)
PredictLoop(v, P, steps) ==
    IF steps <= 0 THEN v ELSE PredictLoop(VecMat(v, P), P, steps - 1)

\* What predict_distribution returns: None or a distribution, as a sequence
\* of length 0 or 1 (like _cached_P).
NoDistribution == <<>>
Distribution(v) == <<v>>

\* Mutant of predict_distribution: a label that is not configured is
\* treated as the first state.
predict_distributionDefaultState(m, current_state, steps) ==
    LET r == transition_matrix(m)
        st == IF KnownLabel(m, current_state) THEN current_state ELSE 1
        v == Array([i \in 1..m.n |-> IF i = st THEN RInt(1) ELSE RZero])
    IN [val |-> Distribution(PredictLoop(v, Matrix(r.P), steps)), obj |-> r.obj]

\* predict_distribution: None for a label that is not configured, else the
\* one-hot vector of the state multiplied steps times by P; the value
\* returned (a vector indexed by state) and the instance.
predict_distribution(m, current_state, steps) ==
    IF ~KnownLabel(m, current_state) THEN [val |-> NoDistribution, obj |-> m]
    ELSE LET r == transition_matrix(m)
             v == Array([i \in 1..m.n |-> IF i = current_state THEN RInt(1) ELSE RZero])
         IN [val |-> Distribution(PredictLoop(v, Matrix(r.P), steps)), obj |-> r.obj]

\* np.linalg.norm(v - w, ord=1)
L1(v, w) == RSum(Array([i \in 1..Len(v) |-> RAbs(RSub(v[i], w[i]))]))

\* The for loop of stationary_distribution from iteration it.
RECURSIVE StationaryLoop(_, _, _, _, _)
StationaryLoop(v, P, tol, it, max_iter) ==
    IF it >= max_iter THEN v
    ELSE LET v_new == VecMat(v, P) IN
         IF RLt(L1(v_new, v), tol) THEN v_new
         ELSE StationaryLoop(v_new, P, tol, it + 1, max_iter)

\* Mutant of stationary_distribution: the iteration starts from the vector
\* of ones, not divided by n.
stationary_distributionOnes(m, tol, max_iter) ==
    LET r == transition_matrix(m)
        v == Array([i \in 1..m.n |-> RInt(1)])
    IN [val |-> StationaryLoop(v, Matrix(r.P), tol, 0, max_iter), obj |-> r.obj]

\* stationary_distribution: power iteration from the uniform vector.
stationary_distribution(m, tol, max_iter) ==
    LET r == transition_matrix(m)
        v == Array([i \in 1..m.n |-> Rat(1, m.n)])
    IN [val |-> StationaryLoop(v, Matrix(r.P), tol, 0, max_iter), obj |-> r.obj]

\* The threshold 1e-12 of is_aperiodic is 1 / (EpsRoot * EpsRoot).
EpsRoot == 1000000

\* x > 1e-12 for x = x[1] / x[2] with x[2] > 0: x[1] * 10^12 > x[2], that
\* is x[1] above the whole part of x[2] / 10^12, taken in two divisions.
GtEps(x) == x[1] > (x[2] \div EpsRoot) \div EpsRoot

max_power == 10

\* (M.dot(A) > 0).astype(int)
BoolMul(M, A) ==
    Matrix([i \in 1..Len(M) |-> [j \in 1..Len(M) |->
        IF \E k \in 1..Len(M) : M[i][k] * A[k][j] > 0 THEN 1 ELSE 0]])

\* The for loop of is_aperiodic from the given power.
RECURSIVE AperiodicLoop(_, _, _)
AperiodicLoop(M, A, power) ==
    IF power > max_power THEN FALSE
    ELSE IF \A i \in 1..Len(M) : M[i][i] > 0 THEN TRUE
    ELSE AperiodicLoop(BoolMul(M, A), A, power + 1)

\* is_aperiodic: True when some P[i,i] > 1e-12, else whether some power
\* up to max_power of the adjacency matrix has an all-positive diagonal.
is_aperiodic(m) ==
    LET r == transition_matrix(m)
        P == Matrix(r.P)
        A == Matrix([i \in 1..m.n |-> [j \in 1..m.n |-> IF GtEps(P[i][j]) THEN 1 ELSE 0]])
    IN [val |-> IF \E i \in 1..m.n : GtEps(P[i][i]) THEN TRUE
                ELSE AperiodicLoop(A, A, 1),
        obj |-> r.obj]

\* The for loop of is_irreducible over v from the given state: every
\* neighbour of u not yet visited is marked visited and pushed.
RECURSIVE PushNeighbours(_, _, _, _, _)
PushNeighbours(A, u, v, stack, visited) ==
    IF v > Len(A) THEN [stack |-> stack, visited |-> visited]
    ELSE IF A[u][v] = 1 /\ v \notin visited
         THEN PushNeighbours(A, u, v + 1, Append(stack, v), visited \cup {v})
         ELSE PushNeighbours(A, u, v + 1, stack, visited)

\* The while loop of is_irreducible: pop u, add it to reachable, push its
\* neighbours.
RECURSIVE IrreducibleLoop(_, _, _, _)
IrreducibleLoop(A, stack, visited, reachable) ==
    IF Len(stack) = 0 THEN reachable
    ELSE LET u == stack[Len(stack)]
             r == PushNeighbours(A, u, 1, SubSeq(stack, 1, Len(stack) - 1), visited)
         IN IrreducibleLoop(A, r.stack, r.visited, reachable \cup {u})

\* Mutant of is_irreducible: the edges are those of the transition matrix
\* (P[i][j] > 0), not those of the counts.
is_irreducibleOnMatrix(m) ==
    LET P == Matrix(Normalised(m))
        A == Matrix([i \in 1..m.n |-> [j \in 1..m.n |-> IF GtEps(P[i][j]) THEN 1 ELSE 0]])
    IN Cardinality(IrreducibleLoop(A, <<1>>, {1}, {})) = m.n

\* is_irreducible: depth-first search from the first state (index 0 in the
\* code, 1 here) over the edges i -> j with counts[i][j] > 0.
is_irreducible(m) ==
    LET A == Matrix([i \in 1..m.n |-> [j \in 1..m.n |-> IF m.counts[i][j] > 0 THEN 1 ELSE 0]])
    IN Cardinality(IrreducibleLoop(A, <<1>>, {1}, {})) = m.n

\* The defaults of stationary_distribution, with which mixing_time_approx
\* calls it.
default_tol == Rat(1, 1000000000)
default_max_iter == 10000

\* The inner for loop of mixing_time_approx from step t for one start
\* vector: the step at which it breaks, or 0 when it runs to its end.
RECURSIVE MixLoop(_, _, _, _, _, _)
MixLoop(v, pi, P, tol, t, max_steps) ==
    IF t > max_steps THEN 0
    ELSE LET v_new == VecMat(v, P)
             tvd == RMul(Rat(1, 2), L1(v_new, pi))
         IN IF RLt(tvd, tol) THEN t
            ELSE MixLoop(v_new, pi, P, tol, t + 1, max_steps)

\* The outer for loop without the else branch of the inner loop: a start
\* state that never mixes leaves worst as it is.
RECURSIVE MixWorstNoElse(_, _, _, _, _, _)
MixWorstNoElse(s, worst, pi, P, tol, max_steps) ==
    IF s > Len(pi) THEN worst
    ELSE LET v == Array([i \in 1..Len(pi) |-> IF i = s THEN RInt(1) ELSE RZero])
             t == MixLoop(v, pi, P, tol, 1, max_steps)
         IN MixWorstNoElse(s + 1, IF t = 0 THEN worst ELSE Max(worst, t),
                           pi, P, tol, max_steps)

\* The outer for loop of mixing_time_approx from start state s.
RECURSIVE MixWorst(_, _, _, _, _, _)
MixWorst(s, worst, pi, P, tol, max_steps) ==
    IF s > Len(pi) THEN worst
    ELSE LET v == Array([i \in 1..Len(pi) |-> IF i = s THEN RInt(1) ELSE RZero])
             t == MixLoop(v, pi, P, tol, 1, max_steps)
         IN MixWorst(s + 1, Max(worst, IF t = 0 THEN max_steps ELSE t),
                     pi, P, tol, max_steps)

\* Mutant of mixing_time_approx: the inner loop has no else branch.
mixing_time_approxNoElse(m, tol, max_steps) ==
    LET st == stationary_distribution(m, default_tol, default_max_iter)
        r == transition_matrix(st.obj)
        pi == Array(st.val)
        P == Matrix(r.P)
    IN [val |-> MixWorstNoElse(1, 0, pi, P, tol, max_steps), obj |-> r.obj]

\* mixing_time_approx: pi from stationary_distribution() with its defaults,
\* then the worst first step below tol over the one-hot start vectors.
mixing_time_approx(m, tol, max_steps) ==
    LET st == stationary_distribution(m, default_tol, default_max_iter)
        r == transition_matrix(st.obj)
        pi == Array(st.val)
        P == Matrix(r.P)
    IN [val |-> MixWorst(1, 0, pi, P, tol, max_steps), obj |-> r.obj]

\* Smoothing constants with small denominators: the iterates of the
\* analysis queries are products of matrix entries, and must stay within
\* the integer range.
QuerySmoothings == {RZero, Rat(1, 2), RInt(1)}

MmQueryInit ==
    /\ \E n \in 1..MaxStates, sm \in QuerySmoothings : mm = OnlineMarkovModel(n, sm)
    /\ mmOut = NoCall
    /\ mmNeg = FALSE
    /\ mmTotal = mm.counts
    /\ NoThreads

\* The outcome records whether the label of the call was known.
MmPredict ==
    /\ ops < MmMaxOps
    /\ \E current_state \in 0..mm.n, steps \in 0..MaxSteps :
          LET r == predict_distribution(mm, current_state, steps) IN
          /\ mm' = r.obj
          /\ mmOut' = Outcome("predict_distribution", KnownLabel(mm, current_state),
                              NoExc, r.val)
    /\ ops' = ops + 1
    /\ UNCHANGED <<mmNeg, mmTotal, notMm>>

\* The default tolerance 1e-9 and a coarse one.
Tols == {Rat(1, 1000000000), Rat(1, 10)}

MmStationary ==
    /\ ops < MmMaxOps
    /\ \E tol \in Tols, max_iter \in 0..MaxIter :
          LET r == stationary_distribution(mm, tol, max_iter) IN
          /\ mm' = r.obj
          /\ mmOut' = Outcome("stationary_distribution", <<tol, max_iter>>, NoExc, r.val)
    /\ ops' = ops + 1
    /\ UNCHANGED <<mmNeg, mmTotal, notMm>>

MmIsAperiodic ==
    /\ ops < MmMaxOps
    /\ LET r == is_aperiodic(mm) IN
          /\ mm' = r.obj
          /\ mmOut' = Outcome("is_aperiodic", None, NoExc, r.val)
    /\ ops' = ops + 1
    /\ UNCHANGED <<mmNeg, mmTotal, notMm>>

MmIsIrreducible ==
    /\ ops < MmMaxOps
    /\ mmOut' = Outcome("is_irreducible", None, NoExc, is_irreducible(mm))
    /\ ops' = ops + 1
    /\ UNCHANGED <<mm, mmNeg, mmTotal, notMm>>

\* The default tolerance 1e-3 and a coarse one.
MixTols == {Rat(1, 1000), RInt(1)}

MmMixingTime ==
    /\ ops < MmMaxOps
    /\ \E tol \in MixTols, max_steps \in 1..MaxMixSteps :
          LET r == mixing_time_approx(mm, tol, max_steps) IN
          /\ mm' = r.obj
          /\ mmOut' = Outcome("mixing_time_approx", <<tol, max_steps>>, NoExc, r.val)
    /\ ops' = ops + 1
    /\ UNCHANGED <<mmNeg, mmTotal, notMm>>

\* The methods whose arithmetic stays exact on every chain.
\* mixing_time_approx is a step of MmMixNext below: what it writes to the
\* instance is what transition_matrix writes, and the 10000-product run
\* inside it is exact on ring chains only.
MmQueryNext ==
    \/ MmObserveDefault
    \/ MmTransitionMatrix
    \/ MmReadable
    \/ MmPredict
    \/ MmStationary
    \/ MmIsAperiodic
    \/ MmIsIrreducible

\* observe_transition with a weight of either sign and of size up to
\* MaxWeight + 1, followed by is_aperiodic.
MmObserveSigned == MmObserveWith(-(MaxWeight + 1)..MaxWeight)

MmAperNext == MmObserveSigned \/ MmIsAperiodic

\* The chains observed along a ring, each state followed by the next and
\* the last by the first, with smoothing 0.  Every row of their transition
\* matrix is zero or has a single 1, so the 10000-product default run of
\* stationary_distribution inside mixing_time_approx ends in at most n + 1
\* products on numbers with denominator n.
MmRingInit == MmQueryInit /\ mm.smoothing = RZero

MmObserveRing ==
    /\ MmObserveDefault
    /\ \A i, j \in 1..mm.n : mmTotal'[i][j] # mmTotal[i][j] => j = (i % mm.n) + 1

\* Every method of the class, on ring chains.
MmMixNext ==
    \/ MmObserveRing
    \/ MmTransitionMatrix
    \/ MmReadable
    \/ MmPredict
    \/ MmStationary
    \/ MmIsAperiodic
    \/ MmIsIrreducible
    \/ MmMixingTime

(***************************************************************************)
(* AMSF2.                                                                  *)
(***************************************************************************)
Bins == {1, 2}

\* __init__: k is not validated; Z = [0] * k.
AMSF2(k) == [k |-> k, Z |-> Repeat(0, k)]

\* Mutant of AMSF2_update: the sign of the item is ignored.
AMSF2_updateUnsigned(a, sg, item, value) ==
    [a EXCEPT !.Z = [i \in 1..Len(a.Z) |-> a.Z[i] + value]]

\* update: for i in range(k): Z[i] += _sign(item, sign_hashes[i]) * value
AMSF2_update(a, sg, item, value) ==
    [a EXCEPT !.Z = [i \in 1..Len(a.Z) |-> a.Z[i] + sg[i][item] * value]]

RECURSIVE SumSq(_)
SumSq(z) == IF Len(z) = 0 THEN 0 ELSE z[1] * z[1] + SumSq(Tail(z))

\* estimate_F2: sum(vals) / len(vals), ZeroDivisionError when Z is empty.
estimate_F2(a) ==
    IF Len(a.Z) = 0 THEN Outcome("estimate_F2", None, "ZeroDivisionError", None)
    ELSE Outcome("estimate_F2", None, NoExc, Rat(SumSq(a.Z), Len(a.Z)))

AmsIdle ==
    /\ ams = AMSF2(1)
    /\ amsSign = [i \in 1..1 |-> [b \in Bins |-> 1]]
    /\ amsOut = NoCall
    /\ amsNet = [b \in Bins |-> 0]

AmsInit ==
    /\ \E k \in -1..MaxAmsK : ams = AMSF2(k)
    /\ amsSign \in [1..Len(ams.Z) -> [Bins -> {1, -1}]]
    /\ amsOut = NoCall
    /\ amsNet = [b \in Bins |-> 0]

\* Mutant of AmsUpdate: the update also resets the RunningMoments instance,
\* as if the two shared their storage.
AmsUpdateSharedStorage ==
    /\ ops < AmsMaxOps
    /\ \E item \in Bins, value \in -1..MaxValue :
          /\ ams' = AMSF2_update(ams, amsSign, item, value)
          /\ amsOut' = Outcome("update", <<item, value>>, NoExc, None)
          /\ amsNet' = [amsNet EXCEPT ![item] = @ + value]
    /\ ops' = ops + 1
    /\ rm' = RunningMoments
    /\ UNCHANGED <<amsSign, rmOut, rmFirst, rmConst, rmUpdates, cmsVars, dgimVars,
                   mwsVars, bfVars, mmVars, mmThreadVars, dgThreadVars>>

AmsUpdate ==
    /\ ops < AmsMaxOps
    /\ \E item \in Bins, value \in -1..MaxValue :
          /\ ams' = AMSF2_update(ams, amsSign, item, value)
          /\ amsOut' = Outcome("update", <<item, value>>, NoExc, None)
          /\ amsNet' = [amsNet EXCEPT ![item] = @ + value]
    /\ ops' = ops + 1
    /\ UNCHANGED <<amsSign, notAms>>

AmsEstimate ==
    /\ ops < AmsMaxOps
    /\ amsOut' = estimate_F2(ams)
    /\ ops' = ops + 1
    /\ UNCHANGED <<ams, amsSign, amsNet, notAms>>

AmsNext == AmsUpdate \/ AmsEstimate

(***************************************************************************)
(* Claims about CountMinSketch.                                            *)
(***************************************************************************)
CmsValid == cms.width >= 1 /\ cms.depth >= 1

\* C1: on a sketch with width >= 1 and depth >= 1 that was only given
\* counts >= 0, estimate(k) returns a value >= the sum of the counts added
\* for k, for every key k (0 for a key never added).
C1_NeverUnderestimates ==
    (CmsValid /\ ~cmsNeg) =>
        \A k \in Keys :
            LET e == estimate(cms, mmh3, k) IN
            e.exc = NoExc /\ e.val >= cmsTrue[k]

\* C1 witness: estimate was called on a valid sketch after non-negative
\* adds and, two keys colliding in every row, returned more than the true
\* count of a key that was added.
C1_Witness ==
    /\ CmsValid /\ ~cmsNeg /\ cms.depth >= 2
    /\ cmsOut.op = "estimate" /\ cmsOut.exc = NoExc
    /\ cmsTrue[cmsOut.arg] >= 1
    /\ cmsOut.val > cmsTrue[cmsOut.arg]

(***************************************************************************)
(* Claims about DGIM.                                                      *)
(***************************************************************************)
BucketsOfSize(s) == {j \in 1..Len(dgim.buckets) : dgim.buckets[j].size = s}

\* C2: in every reachable state, for every bucket size s there are at most
\* two buckets of size s in the bucket list.
C2_AtMostTwoPerSize ==
    \A j \in 1..Len(dgim.buckets) :
        Cardinality(BucketsOfSize(dgim.buckets[j].size)) <= 2

\* C3: after add_bit calls with non-decreasing timestamps, the last at
\* t_last, query(ts) returns 0 for every ts > t_last + window.
C3_ZeroPastWindow ==
    (dgOut.op = "query" /\ dgOut.arg > dgNow + dgim.window) => dgOut.val = 0

\* C4: for a query(ts) with ts >= the last inserted timestamp, the returned
\* count is at most 1.5 times the number of 1-bits with timestamp
\* >= ts - window.
C4_AtMostHalfOver ==
    (dgOut.op = "query" /\ dgOut.arg >= dgNow) =>
        2 * dgOut.val <= 3 * OnesSince(dgOut.arg - dgim.window)

\* History: the timestamp of the first 1-bit inserted (when there is one).
FirstOne == CHOOSE t \in Times : dgOnes[t] > 0 /\ \A u \in Times : u < t => dgOnes[u] = 0

\* The case of C5: only 1-bits were inserted, n >= 1 of them, the last at
\* t_n, with t_n - t_1 < window, and query(t_n) has just returned.
C5_Case ==
    /\ dgOut.op = "query" /\ dgOut.arg = dgNow
    /\ ~dgZero /\ OnesSince(0) >= 1
    /\ dgNow - FirstOne < dgim.window

\* C5: n 1-bits inserted from empty within less than a window, then
\* query(t_n) returns c with n <= c <= 1.5 * n.
C5_WithinBound ==
    C5_Case => /\ OnesSince(0) <= dgOut.val
               /\ 2 * dgOut.val <= 3 * OnesSince(0)

\* C5 witness: the case, with enough 1-bits for buckets to have merged.
C5_Witness ==
    /\ C5_Case
    /\ OnesSince(0) >= 5
    /\ \E j \in 1..Len(dgim.buckets) : dgim.buckets[j].size >= 2

\* No three consecutive buckets of bs share a size.
NoTriple(bs) ==
    \A j \in 1..(Len(bs) - 2) :
        ~(bs[j].size = bs[j + 1].size /\ bs[j + 1].size = bs[j + 2].size)

\* C19: add_bit(1, ts) merges the two oldest of three consecutive buckets of
\* one size and leaves the newest of the three as it is, so when it returns
\* the newest bucket is the inserted one, of size 1 and time ts, and no
\* three consecutive buckets share a size.
C19_MergeTwoOldest ==
    [][dgOnes' # dgOnes =>
          /\ Len(dgim'.buckets) >= 1
          /\ dgim'.buckets[1] = Bucket(dgNow', 1)
          /\ NoTriple(dgim'.buckets)]_vars

\* C20: add_bit(1, ts) followed immediately by query(ts) returns at least 1.
C20_InsertedBitCounted ==
    [][dgOnes' # dgOnes => query(dgim', dgNow') >= 1]_vars

\* The instance with the buckets older than ts - window removed.
Evicted(d, ts) == [d EXCEPT !.buckets = Expire(d.buckets, ts - d.window)]

RECURSIVE SumSizes(_)
SumSizes(bs) == IF Len(bs) = 0 THEN 0 ELSE bs[1].size + SumSizes(Tail(bs))

\* C21: eviction precedes use.  A bucket older than ts - window is removed
\* before add_bit(bit, ts) inserts and merges, so the state add_bit leaves is
\* the one it leaves when started without those buckets, and it is removed
\* before query(ts) computes its result, so query returns what it returns
\* without those buckets.
C21_EvictionPrecedesUse ==
    [][/\ dgOut'.op = "add_bit" =>
             dgim' = add_bit(Evicted(dgim, dgOut'.arg),
                             IF dgOnes' # dgOnes THEN 1 ELSE 0, dgOut'.arg)
       /\ dgOut'.op = "query" =>
             dgOut'.val = query(Evicted(dgim, dgOut'.arg), dgOut'.arg)]_vars

\* C23: in every reachable state (add_bit called with non-decreasing
\* timestamps) each bucket's recorded time is the timestamp of the most
\* recent 1-bit among the 1-bits the bucket represents, also after merges.
C23_TimeIsNewestBit ==
    /\ Len(dgRep) = Len(dgim.buckets)
    /\ \A j \in 1..Len(dgim.buckets) : dgim.buckets[j].time = dgRep[j]

\* C24: a query(ts) running concurrently with one add_bit call, interleaved
\* at the level of the reads and writes of the bucket list, returns what
\* query(ts) returns on the state before that add_bit or on the state after
\* it.
C24_QueryBeforeOrAfter ==
    dgReader.pc = "done" =>
        \/ dgReader.ret = query(dgWriter.before, dgReader.ts)
        \/ dgReader.ret = query(add_bit(dgWriter.before, dgWriter.bit, dgWriter.ts),
                                dgReader.ts)

\* C22: query(ts) returns the sum of the sizes of the buckets with
\* time >= ts - window, the oldest of them (the last one, the list being
\* newest first) counted with half its size only.
C22_OldestBucketHalved ==
    dgOut.op = "query" =>
        LET inw == Expire(dgim.buckets, dgOut.arg - dgim.window)
            oldest == inw[Len(inw)]
        IN dgOut.val = IF Len(inw) = 0 THEN 0
                       ELSE SumSizes(inw) - oldest.size + (oldest.size \div 2)

(***************************************************************************)
(* Claims about RunningMoments.                                            *)
(***************************************************************************)
\* C6: fed a constant sequence of length >= 4, get_variance, get_skewness
\* and get_kurtosis each return 0 without raising.
C6_ConstantMomentsZero ==
    (rmConst /\ rm.n >= 4) =>
        /\ get_variance(rm).exc = NoExc /\ get_variance(rm).val = RZero
        /\ get_skewness(rm).exc = NoExc /\ get_skewness(rm).val.sq = RZero
        /\ get_kurtosis(rm).exc = NoExc /\ get_kurtosis(rm).val = RZero

\* C14: with n the number of update calls made so far, no getter raises on
\* insufficient data: get_mean() returns 0 when n = 0, get_variance()
\* returns 0 when n < 2, get_skewness() returns 0 when n < 3 and
\* get_kurtosis() returns 0 when n < 4.
C14_GettersZeroOnFewSamples ==
    /\ rmUpdates = 0 => get_mean(rm) = Outcome("get_mean", None, NoExc, RZero)
    /\ rmUpdates < 2 => get_variance(rm) = Outcome("get_variance", None, NoExc, RZero)
    /\ rmUpdates < 3 =>
          get_skewness(rm) = Outcome("get_skewness", None, NoExc, Root(0, RZero))
    /\ rmUpdates < 4 => get_kurtosis(rm) = Outcome("get_kurtosis", None, NoExc, RZero)

\* C14 witness: get_kurtosis() returned 0 after exactly three updates with
\* samples that were not all equal (the moments themselves are not 0).
C14_Witness ==
    /\ rmUpdates = 3 /\ ~rmConst /\ rm.M2 # RZero
    /\ rmOut = Outcome("get_kurtosis", None, NoExc, RZero)

(***************************************************************************)
(* Claims about MinWiseSampler.                                            *)
(***************************************************************************)
Min(a, b) == IF a < b THEN a ELSE b

\* The items of the heap, and the j items of lowest hash among a set.
Held == {mws.heap[j][2] : j \in 1..Len(mws.heap)}
Lowest(S, j) ==
    {a \in S : Cardinality({b \in S : sha256[b] < sha256[a]}) < j}

\* C7: with k >= 1 and a stream of items with pairwise distinct hashes,
\* after each consider the heap holds exactly the min(N, k) items of
\* smallest hash among the N considered (a function of the set considered,
\* so the same for every arrival order), hence exactly k once N > k.
C7_KLowestHashes ==
    (mws.k >= 1 /\ ~mwsDup) =>
        LET N == Cardinality(mwsSeen) IN
        /\ Len(mws.heap) = Min(N, mws.k)
        /\ Len(sample(mws)) = Min(N, mws.k)
        /\ Held = Lowest(mwsSeen, Min(N, mws.k))

\* C7 witness: more than k >= 2 distinct items were considered, so some
\* item is not retained, and sample() returned k items.
C7_Witness ==
    /\ mws.k >= 2 /\ ~mwsDup
    /\ Cardinality(mwsSeen) > mws.k
    /\ mwsOut.op = "sample" /\ Len(mwsOut.val) = mws.k
    /\ Held # mwsSeen

\* C25: sample() never holds the same item twice, also when consider was
\* called several times with one item, and holds only items considered.
C25_SampleHasNoDuplicates ==
    LET smp == sample(mws) IN
    /\ \A a, b \in 1..Len(smp) : a # b => smp[a] # smp[b]
    /\ \A a \in 1..Len(smp) : smp[a] \in mwsSeen

(***************************************************************************)
(* Claims about the Bloom filter module.                                   *)
(***************************************************************************)
\* C8: once mark_play_analyzed(key) has been called, check_play_analyzed(key)
\* returns true in every later state, whatever keys are marked afterwards.
C8_NoFalseNegative ==
    \A key \in bfMarked : check_play_analyzed(bf, bfHash, key)

\* C8 witness: two keys with disjoint bit positions have been marked and
\* check_play_analyzed of one of them returned true.
C8_Witness ==
    /\ bfOut.op = "check_play_analyzed" /\ bfOut.val = TRUE
    /\ bfOut.arg \in bfMarked
    /\ \E other \in bfMarked :
          BfPositions(bfHash, other) \cap BfPositions(bfHash, bfOut.arg) = {}

(***************************************************************************)
(* Claims about OnlineMarkovModel.                                         *)
(***************************************************************************)
RowUnobserved(i) == \A j \in 1..mm.n : mm.counts[i][j] = 0

\* C9: with n >= 1 states, smoothing > 0 and only non-negative weights
\* observed, every row of transition_matrix() has non-negative entries
\* summing to 1, and the row of a state with no observed outgoing
\* transition is uniform, 1/n.
C9_RowStochastic ==
    (mm.n >= 1 /\ RSign(mm.smoothing) > 0 /\ ~mmNeg) =>
        LET P == transition_matrix(mm).P IN
        \A i \in 1..mm.n :
            /\ \A j \in 1..mm.n : RSign(P[i][j]) >= 0
            /\ RSum(P[i]) = RInt(1)
            /\ RowUnobserved(i) => \A j \in 1..mm.n : P[i][j] = Rat(1, mm.n)

\* C9 witness: transition_matrix() returned for a model with smoothing > 0
\* in which one state has observed transitions and another has none.
C9_Witness ==
    /\ mm.n >= 2 /\ RSign(mm.smoothing) > 0 /\ ~mmNeg
    /\ mmOut.op = "transition_matrix"
    /\ \E i, j \in 1..mm.n :
          /\ RowUnobserved(i) /\ ~RowUnobserved(j)
          /\ mmOut.val[i] = [x \in 1..mm.n |-> Rat(1, mm.n)]
          /\ mmOut.val[j] # mmOut.val[i]

AllReturned ==
    mmWriter.pc = "done" /\ \A t \in Readers : mmReaders[t].pc = "done"

\* C11: one observe_transition call interleaved field by field with
\* concurrent transition_matrix calls: once all calls have returned, a
\* non-empty cached matrix is the normalisation of the current counts.
C11_NoStaleCache ==
    (AllReturned /\ mm.cached_P # NoMatrix) => mm.cached_P[1] = Normalised(mm)

\* C12: observe_transition with from or to outside the configured states
\* raises nothing and leaves the count matrix and the cached matrix as they
\* were.
C12_UnknownLabelNoEffect ==
    [][(mmOut'.op = "observe_transition" /\ mmOut'.arg = FALSE) =>
          /\ mmOut'.exc = NoExc
          /\ mm'.counts = mm.counts
          /\ mm'.cached_P = mm.cached_P]_vars

\* C12 witness: a call with an unknown label has returned on a model that
\* holds observed counts and a cached matrix.
C12_Witness ==
    /\ mmOut.op = "observe_transition" /\ mmOut.arg = FALSE
    /\ mm.cached_P # NoMatrix
    /\ \E i, j \in 1..mm.n : mm.counts[i][j] > 0

\* The denominator of row i in C15: sum over k of count[i][k] + n*smoothing.
RowTotal(i) ==
    RAdd(RInt(LET RECURSIVE S(_)
                  S(k) == IF k = 0 THEN 0 ELSE mmTotal[i][k] + S(k - 1)
              IN S(mm.n)),
         RMul(RInt(mm.n), mm.smoothing))

\* C15: after any observe_transition calls, the matrix that
\* transition_matrix() returns has at [i][j]
\* (count[i][j] + smoothing) / (sum over k of count[i][k] + n*smoothing),
\* count being the total weight observed, wherever that quotient is defined.
C15_SmoothedRatio ==
    mmOut.op = "transition_matrix" =>
        \A i \in 1..mm.n :
            LET total == RowTotal(i) IN
            total # RZero =>
                \A j \in 1..mm.n :
                    mmOut.val[i][j] =
                        RDiv(RAdd(RInt(mmTotal[i][j]), mm.smoothing), total)

\* C15 witness: transition_matrix() returned, after observations, a matrix
\* with an entry given by the formula and different from 1/n.
C15_Witness ==
    /\ mmOut.op = "transition_matrix"
    /\ RSign(mm.smoothing) > 0
    /\ \E i, j \in 1..mm.n :
          /\ mmTotal[i][j] > 0
          /\ RowTotal(i) # RZero
          /\ mmOut.val[i][j] = RDiv(RAdd(RInt(mmTotal[i][j]), mm.smoothing), RowTotal(i))
          /\ mmOut.val[i][j] # Rat(1, mm.n)

\* C27: in a sequential run of observe_transition, transition_matrix and
\* the derived queries the cache is coherent: a cached matrix, when present,
\* is the normalisation of the current count matrix, and what
\* transition_matrix() returns (and transition_prob_matrix_readable()
\* copies) is that normalisation too, so it reflects
\* every observation made before it and two calls with no update in between
\* return equal matrices.
C27_CacheCoherent ==
    /\ mm.cached_P # NoMatrix => mm.cached_P[1] = Matrix(Normalised(mm))
    /\ mmOut.op \in {"transition_matrix", "transition_prob_matrix_readable"} =>
          /\ mm.cached_P # NoMatrix
          /\ mmOut.val = mm.cached_P[1]

\* C27 witness: transition_matrix() has returned from a cache that was
\* emptied by observations and filled again: the model holds several
\* observed counts, a cached matrix, and the matrix returned differs from the
\* normalisation of the empty count matrix.
C27_Witness ==
    /\ mmOut.op = "transition_matrix" /\ mm.n = 2
    /\ mm.cached_P # NoMatrix
    /\ mm.counts[1][2] >= 1 /\ mm.counts[2][2] >= 1
    /\ mmOut.val # Matrix(Normalised(OnlineMarkovModel(mm.n, mm.smoothing)))

\* The states reachable from those of S along edges i -> j with
\* count[i][j] > 0, S included.
RECURSIVE ReachableFrom(_)
ReachableFrom(S) ==
    LET T == S \cup {j \in 1..mm.n : \E i \in S : mm.counts[i][j] > 0}
    IN IF T = S THEN S ELSE ReachableFrom(T)

\* C28: is_irreducible() returns true if and only if every configured
\* state is reachable from the first configured state along edges i -> j
\* with count[i][j] > 0; the result is the same under every smoothing
\* constant, and a model with at least two states and no observations
\* returns false.
C28_ReachableFromFirst ==
    mmOut.op = "is_irreducible" =>
        /\ mmOut.exc = NoExc
        /\ mmOut.val = (ReachableFrom({1}) = 1..mm.n)
        /\ \A sm \in Smoothings \cup QuerySmoothings :
              is_irreducible([mm EXCEPT !.smoothing = sm]) = mmOut.val
        /\ (mm.n >= 2 /\ \A i, j \in 1..mm.n : mm.counts[i][j] = 0) => mmOut.val = FALSE

\* C28 witness: is_irreducible() returned True on a model with smoothing 0
\* and two states, the second reached from the first by an observed
\* transition (and the first not reached from the second).
C28_Witness ==
    /\ mmOut.op = "is_irreducible" /\ mmOut.val = TRUE
    /\ mm.n = 2 /\ mm.smoothing = RZero
    /\ mm.counts[1][2] >= 1 /\ mm.counts[2][1] = 0

\* The support graph of the chain: an edge i -> j where P[i][j] > 1e-12.
Support ==
    LET P == Matrix(Normalised(mm))
    IN Matrix([i \in 1..mm.n |-> [j \in 1..mm.n |-> IF GtEps(P[i][j]) THEN 1 ELSE 0]])

\* Entry [i][j] is positive when the graph A has a walk of length l from i
\* to j.
RECURSIVE BoolPower(_, _)
BoolPower(A, l) == IF l = 1 THEN A ELSE BoolMul(BoolPower(A, l - 1), A)

\* The lengths up to n of the closed walks of the support graph.  Every
\* closed walk is made of cycles of at most n edges, so a d that divides
\* all of these lengths divides the length of every closed walk.
ClosedWalkLengths ==
    {l \in 1..mm.n : \E i \in 1..mm.n : BoolPower(Support, l)[i][i] > 0}

\* C29: is_aperiodic() returns True only for chains whose support graph is
\* aperiodic: when some d > 1 divides the length of every closed walk (as
\* in a deterministic two-state cycle with smoothing 0), it returns False.
C29_PeriodicNotAperiodic ==
    (/\ mmOut.op = "is_aperiodic"
     /\ \E d \in 2..(mm.n + 1) : \A l \in ClosedWalkLengths : l % d = 0)
        => mmOut.val = FALSE

\* The uniform start vector multiplied k times by the normalisation of the
\* current counts.
Iterate(k) ==
    PredictLoop(Array([i \in 1..mm.n |-> Rat(1, mm.n)]), Matrix(Normalised(mm)), k)

\* Total-variation distance to pi after t steps from state s.
TVD(s, t, pi) ==
    RMul(Rat(1, 2),
         L1(PredictLoop(Array([i \in 1..mm.n |-> IF i = s THEN RInt(1) ELSE RZero]),
                        Matrix(Normalised(mm)), t), pi))

Least(S) == CHOOSE t \in S : \A u \in S : t <= u

C13_UnknownStateNone ==
    [][(mmOut'.op = "predict_distribution" /\ mmOut'.arg = FALSE) =>
          /\ mmOut'.exc = NoExc
          /\ mmOut'.val = NoDistribution
          /\ mm'.counts = mm.counts]_vars

\* C13 witness: predict_distribution returned None for an unknown state on
\* a model that holds observed counts.
C13_Witness ==
    /\ mmOut.op = "predict_distribution" /\ mmOut.arg = FALSE
    /\ mmOut.val = NoDistribution
    /\ \E i, j \in 1..mm.n : mm.counts[i][j] > 0

\* C16: when count[i][i] > 0 for some state i, is_aperiodic() returns True.
C16_SelfLoopAperiodic ==
    (mmOut.op = "is_aperiodic" /\ \E i \in 1..mm.n : mm.counts[i][i] > 0) =>
        (mmOut.exc = NoExc /\ mmOut.val = TRUE)

\* C17: with n >= 1 states, smoothing > 0 and non-negative counts,
\* stationary_distribution() returns a vector over all n states whose
\* entries are non-negative and sum to 1, whichever iterate it stops at.
C17_StationaryIsDistribution ==
    (mmOut.op = "stationary_distribution" /\ mm.n >= 1
        /\ RSign(mm.smoothing) > 0 /\ ~mmNeg) =>
        /\ mmOut.exc = NoExc
        /\ Len(mmOut.val) = mm.n
        /\ \A i \in 1..mm.n : RSign(mmOut.val[i]) >= 0
        /\ RSum(mmOut.val) = RInt(1)

\* C17 witness: stationary_distribution() returned a probability vector
\* that is not the uniform start vector.
C17_Witness ==
    /\ mmOut.op = "stationary_distribution"
    /\ mm.n >= 2 /\ RSign(mm.smoothing) > 0 /\ ~mmNeg
    /\ RSum(mmOut.val) = RInt(1)
    /\ mmOut.val # [i \in 1..mm.n |-> Rat(1, mm.n)]

(***************************************************************************)
(* Claims about the instances side by side.                                *)
(***************************************************************************)
\* A step changes the fields of at most one instance, and the instance that
\* changes goes to what its own update gives from its own fields.
IsolatedStep ==
    /\ cms' # cms =>
          /\ \E key \in Keys, count \in -1..MaxCount : cms' = add(cms, mmh3, key, count).obj
          /\ UNCHANGED <<dgim, rm, mws, bf, mm, ams>>
    /\ mws' # mws =>
          /\ \E item \in Items : mws' = consider(mws, sha256, item).obj
          /\ UNCHANGED <<cms, dgim, rm, bf, mm, ams>>
    /\ dgim' # dgim =>
          /\ \E bit \in {0, 1}, ts \in Times : dgim' = add_bit(dgim, bit, ts)
          /\ UNCHANGED <<cms, rm, mws, bf, mm, ams>>
    /\ ams' # ams =>
          /\ \E item \in Bins, value \in -1..MaxValue :
                ams' = AMSF2_update(ams, amsSign, item, value)
          /\ UNCHANGED <<cms, dgim, rm, mws, bf, mm>>
    /\ rm' # rm =>
          /\ \E x \in Samples : rm' = update(rm, x)
          /\ UNCHANGED <<cms, dgim, mws, bf, mm, ams>>
    /\ mm' # mm =>
          /\ \E from_state \in 0..mm.n, to_state \in 0..mm.n, weight \in -1..MaxWeight :
                mm' = observe_transition(mm, from_state, to_state, weight)
          /\ UNCHANGED <<cms, dgim, rm, mws, bf, ams>>

\* update applied k times to r with the sample x.
RECURSIVE UpdateTimes(_, _, _)
UpdateTimes(r, x, k) == IF k = 0 THEN r ELSE UpdateTimes(update(r, x), x, k - 1)

\* The AMSF2 and RunningMoments instances are in the state that their own
\* updates alone give: each Z[i] is the signed sum of the values given to
\* update, and after rmUpdates updates with one sample value the moments are
\* those of that many updates from a new instance.
OwnUpdatesOnly ==
    /\ \A i \in 1..Len(ams.Z) :
          ams.Z[i] = amsSign[i][1] * amsNet[1] + amsSign[i][2] * amsNet[2]
    /\ rm.n = rmUpdates
    /\ (rmUpdates >= 1 /\ rmConst) => rm = UpdateTimes(RunningMoments, rmFirst, rmUpdates)

\* C18: under any interleaving of updates to different instances
\* (CountMinSketch.add, MinWiseSampler.consider, DGIM.add_bit, AMSF2.update,
\* RunningMoments.update, OnlineMarkovModel.observe_transition), every update
\* changes only the instance it is called on, and each instance is in the
\* state its own updates alone would give.
C18_UpdatesIsolated == [][IsolatedStep]_vars /\ []OwnUpdatesOnly

\* C18 witness: all six instances have been updated in one run, and the
\* AMSF2 and RunningMoments instances hold non-zero data.
C18_Witness ==
    /\ cmsOut.op = "add" /\ mwsOut.op = "consider" /\ dgOut.op = "add_bit"
    /\ amsOut.op = "update" /\ rmOut.op = "update" /\ mmOut.op = "observe_transition"
    /\ \E i \in 1..Len(ams.Z) : ams.Z[i] # 0
    /\ rm.n >= 1 /\ rm.mean # RZero

(***************************************************************************)
(* Claims about AMSF2.                                                     *)
(***************************************************************************)
\* Signed sum of the net weights of all items under the signs of accumulator i.
RECURSIVE SignedNet(_, _)
SignedNet(i, items) ==
    IF items = {} THEN 0
    ELSE LET v == CHOOSE x \in items : TRUE
         IN amsSign[i][v] * amsNet[v] + SignedNet(i, items \ {v})

\* C26: for k >= 1, after any sequence of updates each accumulator Z[i] is
\* the sum over the distinct items v of sign_i(v) times the net weight of v,
\* with sign_i(v) in {+1, -1} taken from the instance's fixed table (so the
\* accumulators depend on the net weights only, not on the order of the
\* updates), and when at most one item has a non-zero net weight m,
\* estimate_F2() returns exactly m * m.
C26_SignedNetWeights ==
    ams.k >= 1 =>
        /\ Len(ams.Z) = ams.k
        /\ \A i \in 1..ams.k :
              /\ \A v \in Bins : amsSign[i][v] \in {1, -1}
              /\ ams.Z[i] = SignedNet(i, Bins)
        /\ amsOut.op = "estimate_F2" =>
              \A v \in Bins :
                  (\A w \in Bins \ {v} : amsNet[w] = 0) =>
                      /\ amsOut.exc = NoExc
                      /\ amsOut.val = RInt(amsNet[v] * amsNet[v])

\* C26 witness: estimate_F2 has returned on an instance with two
\* accumulators that received several updates, all to one item whose net
\* weight is 2 and whose sign is -1 in one accumulator and +1 in the other.
C26_Witness ==
    /\ ams.k = 2 /\ ops >= 3
    /\ amsOut.op = "estimate_F2" /\ amsOut.val = RInt(4)
    /\ amsNet[1] = 2 /\ amsNet[2] = 0
    /\ amsSign[1][1] = -1 /\ amsSign[2][1] = 1
    /\ ams.Z = <<-2, 2>>

(***************************************************************************)
(* Claims about construction.                                              *)
(***************************************************************************)
\* C10: an invalid capacity (CountMinSketch width < 1 or depth < 1,
\* MinWiseSampler k < 1, AMSF2 k < 1) is rejected by the constructor, so on
\* an instance that was constructed no add, estimate, consider, update or
\* estimate_F2 call raises.
C10_FailFastAtConstruction ==
    /\ cmsOut.exc = NoExc
    /\ mwsOut.exc = NoExc
    /\ amsOut.exc = NoExc

(***************************************************************************)
(* Specifications: one per component, the other instances left idle.       *)
(***************************************************************************)
InitCms == ops = 0 /\ CmsInit /\ DgimIdle /\ RmIdle /\ MwsIdle /\ BfIdle /\ MmIdle /\ AmsIdle
SpecCms == InitCms /\ [][CmsNext]_vars

InitDgim == ops = 0 /\ CmsIdle /\ DgimInit /\ RmIdle /\ MwsIdle /\ BfIdle /\ MmIdle /\ AmsIdle
SpecDgim == InitDgim /\ [][DgimNext]_vars

InitRm == ops = 0 /\ CmsIdle /\ DgimIdle /\ RmInit /\ MwsIdle /\ BfIdle /\ MmIdle /\ AmsIdle
SpecRm == InitRm /\ [][RmNext]_vars

InitMws == ops = 0 /\ CmsIdle /\ DgimIdle /\ RmIdle /\ MwsInit /\ BfIdle /\ MmIdle /\ AmsIdle
SpecMws == InitMws /\ [][MwsNext]_vars

InitBf == ops = 0 /\ CmsIdle /\ DgimIdle /\ RmIdle /\ MwsIdle /\ BfInit /\ MmIdle /\ AmsIdle
SpecBf == InitBf /\ [][BfNext]_vars

InitMm == ops = 0 /\ CmsIdle /\ DgimIdle /\ RmIdle /\ MwsIdle /\ BfIdle /\ MmInit /\ AmsIdle
SpecMm == InitMm /\ [][MmNext]_vars

\* The six update operations interleaved, on instances that live side by
\* side (app.py 79-84), each with a small choice of arguments: one key with
\* count 1, two items, 1-bits at one timestamp, value 1, one repeated sample
\* of 0 or 1, weight 1.  The AMSF2 instance has k = 1 and any sign table.
InitIso ==
    ops = 0 /\ CmsIdle /\ DgimIdle /\ RmIdle /\ MwsIdle /\ BfIdle /\ MmIdle
            /\ AmsInit /\ ams.k = 1
IsoNext ==
    \/ (ops < IsoMaxOps /\ CmsAdd /\ cmsTrue'["player:123"] = cmsTrue["player:123"] + 1)
    \/ (ops < IsoMaxOps /\ MwsConsider /\ mwsOut'.arg <= 2)
    \/ (ops < IsoMaxOps /\ DgimAddBit /\ dgNow' = dgNow /\ dgOnes' # dgOnes)
    \/ (ops < IsoMaxOps /\ AmsUpdate /\ amsOut'.arg[2] = 1)
    \/ (ops < IsoMaxOps /\ RmUpdate /\ rmConst' /\ rmFirst' <= 1)
    \/ (ops < IsoMaxOps /\ MmObserveDefault)
SpecIso == InitIso /\ [][IsoNext]_vars

\* One update racing with transition_matrix calls.
\* The windowed counter with one add_bit and one query in parallel.
SpecDgimConc == InitDgim /\ [][DgimConcNext]_vars

InitMmConc == ops = 0 /\ CmsIdle /\ DgimIdle /\ RmIdle /\ MwsIdle /\ BfIdle /\ MmConcInit /\ AmsIdle
SpecMmConc == InitMmConc /\ [][MmConcNext]_vars

\* The model with its analysis queries other than mixing_time_approx, on
\* every chain.
InitMmQuery ==
    ops = 0 /\ CmsIdle /\ DgimIdle /\ RmIdle /\ MwsIdle /\ BfIdle /\ MmQueryInit /\ AmsIdle
SpecMmQuery == InitMmQuery /\ [][MmQueryNext]_vars

\* The model with weights of either sign and is_aperiodic.
SpecMmAper == InitMmQuery /\ [][MmAperNext]_vars

\* The model on ring chains with every query, mixing_time_approx among
\* them.
InitMmMix ==
    ops = 0 /\ CmsIdle /\ DgimIdle /\ RmIdle /\ MwsIdle /\ BfIdle /\ MmRingInit /\ AmsIdle
SpecMmMix == InitMmMix /\ [][MmMixNext]_vars

InitAms == ops = 0 /\ CmsIdle /\ DgimIdle /\ RmIdle /\ MwsIdle /\ BfIdle /\ MmIdle /\ AmsInit
SpecAms == InitAms /\ [][AmsNext]_vars

\* The three sketches whose constructors take a capacity, each built with
\* any capacity (hash tables fixed), called in any order.
CfgInit ==
    /\ \E w \in -1..MaxWidth, d \in -1..MaxDepth :
          /\ cms = CountMinSketch(w, d)
          /\ mmh3 = [i \in 1..NumRows(cms) |-> [k \in Keys |-> 0]]
    /\ cmsOut = NoCall /\ cmsTrue = [k \in Keys |-> 0] /\ cmsNeg = FALSE
    /\ \E k \in -1..MaxK : mws = MinWiseSampler(k)
    /\ sha256 = [it \in Items |-> it]
    /\ mwsOut = NoCall /\ mwsSeen = {} /\ mwsDup = FALSE
    /\ \E k \in -1..MaxAmsK : ams = AMSF2(k)
    /\ amsSign = [i \in 1..Len(ams.Z) |-> [b \in Bins |-> 1]]
    /\ amsOut = NoCall
    /\ amsNet = [b \in Bins |-> 0]

InitCfg == ops = 0 /\ CfgInit /\ DgimIdle /\ RmIdle /\ BfIdle /\ MmIdle
CfgNext ==
    \/ (ops < CfgMaxOps /\ CmsAdd)
    \/ (ops < CfgMaxOps /\ CmsEstimate)
    \/ (ops < CfgMaxOps /\ MwsConsider)
    \/ (ops < CfgMaxOps /\ MwsSample)
    \/ (ops < CfgMaxOps /\ AmsUpdate)
    \/ (ops < CfgMaxOps /\ AmsEstimate)
SpecCfg == InitCfg /\ [][CfgNext]_vars
====
